---- MODULE Spec2Model ----
(***************************************************************************)
(* Model of the wind-loading part of StructuralTools:                      *)
(*   src/src/structuraltools/utils.py             linterp, linterp_dicts,  *)
(*                                                get_table_entry,         *)
(*                                                fill_templates           *)
(*   src/src/structuraltools/asce/wind_loading.py calc_K_zt, calc_K_z,     *)
(*                                                calc_q_z,                *)
(*                                                calc_wind_server_inputs, *)
(*                                                MainWindServer,          *)
(*                                                CandCServer              *)
(*                                                                         *)
(* Numbers are Python floats.  A float is modelled as [m, e], the value    *)
(* m * 2^e, with a mantissa of MantBits bits and round-to-nearest-even     *)
(* after every operation, as IEEE-754 binary64 does with 53 bits.  The     *)
(* exponent is unbounded: overflow and underflow are not modelled.         *)
(* Lengths are in ft, areas in ft^2, pressures in psf, speeds carry their  *)
(* unit.  Python exceptions are modelled by their class name.              *)
(***************************************************************************)
EXTENDS Integers, Sequences, FiniteSets, TLC

VARIABLES call, ret, mws, ccs

vars == <<call, ret, mws, ccs>>

(***************************************************************************)
(* Floating-point arithmetic                                               *)
(***************************************************************************)
\* Number of mantissa bits of the modelled float format.
MantBits == 8

\* "name = expression" followed by the statements that use the name: Python
\* evaluates the expression once.
Let(value, Rest(_)) == CHOOSE r \in {Rest(v) : v \in {value}} : TRUE

Pow2(k) == IF k <= 0 THEN 1 ELSE 2 ^ k

\* The number of bits of n < 2^31.
BitLen(n) ==
    CHOOSE r \in {IF v <= 0 THEN 0
                  ELSE CHOOSE k \in 1..31 : Pow2(k - 1) <= v /\ (k = 31 \/ v < Pow2(k))
                  : v \in {n}} : TRUE

Zero == [m |-> 0, e |-> 0]

\* The float nearest to n * 2^e for evaluated n >= 0 and e, k being the
\* number of bits of n beyond MantBits; ties go to the even mantissa.
RoundOf(n, e, k) ==
    IF n = 0 THEN Zero
    ELSE IF k <= 0 THEN [m |-> n * Pow2(-k), e |-> e + k]
    ELSE LET q    == n \div Pow2(k)
             r    == n % Pow2(k)
             half == Pow2(k - 1)
             up   == r > half \/ (r = half /\ q % 2 = 1)
             m    == IF up THEN q + 1 ELSE q
         IN  IF m = Pow2(MantBits)
             THEN [m |-> Pow2(MantBits - 1), e |-> e + k + 1]
             ELSE [m |-> m, e |-> e + k]

\* The float nearest to n * 2^e for an integer n >= 0.
RoundMag(n, e) ==
    CHOOSE r \in {RoundOf(v[1], v[2], BitLen(v[1]) - MantBits) : v \in {<<n, e>>}} : TRUE

\* The float nearest to n * 2^e for any integer n.
Rnd(n, e) ==
    IF n >= 0 THEN RoundMag(n, e)
    ELSE CHOOSE r \in {[m |-> -(v.m), e |-> v.e] : v \in {RoundMag(-n, e)}} : TRUE

\* The number of quotient bits taken in one step of a division by d when k
\* are wanted: as many as keep the products below 2^31.
Chunk(d, k) ==
    CHOOSE c \in {IF room < 1 THEN 1 ELSE IF k < room THEN k ELSE room
                  : room \in {30 - BitLen(d)}} : TRUE

\* The quotient (q + r / d) * 2^e, r < d, taken to k more bits and rounded; a
\* remainder left at the end is recorded in a sticky bit.
RECURSIVE LongDiv(_, _, _, _, _)
LongDiv(r, d, q, k, e) ==
    IF k = 0 THEN RoundMag(2 * q + (IF r > 0 THEN 1 ELSE 0), e - 1)
    ELSE CHOOSE res \in
            {LongDiv((v[1] * Pow2(v[4])) % v[2], v[2],
                     v[3] * Pow2(v[4]) + (v[1] * Pow2(v[4])) \div v[2],
                     k - v[4], e - v[4])
             : v \in {<<r, d, q, Chunk(d, k)>>}} : TRUE

\* (n / d) * 2^e rounded, for evaluated n, d > 0 with n / (d * 2^s) in (1/2, 2).
RatOf(n, d, e, s) ==
    LET n1 == IF s < 0 THEN n * Pow2(-s) ELSE n
        d1 == IF s > 0 THEN d * Pow2(s) ELSE d
        t  == IF n1 < d1 THEN 1 ELSE 0
    IN  LongDiv(n1 * Pow2(t) - d1, d1, 1, MantBits + 1, e + s - t)

\* The float nearest to (n / d) * 2^e for integers n >= 0, d > 0.
RatRound(n, d, e) ==
    CHOOSE r \in {IF v[1] = 0 THEN Zero
                  ELSE RatOf(v[1], v[2], v[3], v[4])
                  : v \in {<<n, d, e, BitLen(n) - BitLen(d)>>}} : TRUE

FNeg(a) == CHOOSE r \in {[m |-> -(v.m), e |-> v.e] : v \in {a}} : TRUE

\* A decimal literal n/d of the source, converted as Python converts it.
F(n, d) == IF n >= 0 THEN RatRound(n, d, 0) ELSE FNeg(RatRound(-n, d, 0))

FI(n) == F(n, 1)

FAbs(a) ==
    CHOOSE r \in {[m |-> IF v.m < 0 THEN -(v.m) ELSE v.m, e |-> v.e] : v \in {a}} : TRUE

\* numpy.sign: -1, 0 or 1
FSign(a) ==
    Let(a, LAMBDA v : IF v.m > 0 THEN FI(1) ELSE IF v.m < 0 THEN FI(-1) ELSE Zero)

\* a + b for evaluated a, b
AddOf(a, b) ==
    IF a.m = 0 THEN b
    ELSE IF b.m = 0 THEN a
    ELSE IF a.e - b.e > MantBits + 2 THEN a
    ELSE IF b.e - a.e > MantBits + 2 THEN b
    ELSE IF a.e >= b.e THEN Rnd(a.m * Pow2(a.e - b.e) + b.m, b.e)
    ELSE Rnd(a.m + b.m * Pow2(b.e - a.e), a.e)

FAdd(a, b) == CHOOSE r \in {AddOf(v[1], v[2]) : v \in {<<a, b>>}} : TRUE

FSub(a, b) == FAdd(a, FNeg(b))

FMul(a, b) ==
    CHOOSE r \in {Rnd(v[1].m * v[2].m, v[1].e + v[2].e) : v \in {<<a, b>>}} : TRUE

\* a / b for evaluated a, b with b # 0
DivOf(a, b) ==
    IF (a.m < 0) = (b.m < 0)
    THEN RatRound(FAbs(a).m, FAbs(b).m, a.e - b.e)
    ELSE FNeg(RatRound(FAbs(a).m, FAbs(b).m, a.e - b.e))

FDiv(a, b) == CHOOSE r \in {DivOf(v[1], v[2]) : v \in {<<a, b>>}} : TRUE

\* a < b
FLt(a, b) == FSub(a, b).m < 0

FLe(a, b) == FSub(a, b).m <= 0

FMax(a, b) ==
    CHOOSE r \in {IF FLt(v[1], v[2]) THEN v[2] ELSE v[1] : v \in {<<a, b>>}} : TRUE

FMin(a, b) ==
    CHOOSE r \in {IF FLt(v[2], v[1]) THEN v[2] ELSE v[1] : v \in {<<a, b>>}} : TRUE

\* The integer square root of n < 2^24, found in two steps of 6 bits.
ISqrt(n) ==
    Let(CHOOSE r \in 0..63 : r * r <= n \div 4096 /\ n \div 4096 < (r + 1) * (r + 1),
        LAMBDA c : CHOOSE r \in (64 * c)..(64 * c + 63) :
                       r * r <= n /\ n < (r + 1) * (r + 1))

\* The square root of an evaluated a > 0, from the integer root of a.m * 2^s.
SqrtOf(a, s) ==
    Let(ISqrt(a.m * Pow2(s)), LAMBDA rt :
        RoundMag(2 * rt + (IF rt * rt = a.m * Pow2(s) THEN 0 ELSE 1),
                 ((a.e - s) \div 2) - 1))

\* The float nearest to the square root of a >= 0.
FSqrt(a) ==
    CHOOSE r \in {IF v.m <= 0 THEN Zero
                  ELSE SqrtOf(v, MantBits + 4 + ((v.e + MantBits) % 2))
                  : v \in {a}} : TRUE

\* Number of binary digits kept of the fraction of an exponent.
PowBits == 6

\* acc * root ** (bits / 2^(i - 1)): the binary fraction bits of i digits is
\* raised by repeated square roots, every step rounded.
RECURSIVE PowFrac(_, _, _, _)
PowFrac(root, bits, i, acc) ==
    IF i = 0 THEN acc
    ELSE CHOOSE r \in
            {PowFrac(v[1], bits, i - 1, v[2])
             : v \in {<<FSqrt(root),
                        IF (bits \div Pow2(i - 1)) % 2 = 1 THEN FMul(acc, root)
                        ELSE acc>>}} : TRUE

\* a ** x for evaluated a, x: n is x in units of 2^-PowBits.
PowOf(a, n) ==
    Let(IF n \div Pow2(PowBits) = 0 THEN FI(1)
        ELSE IF n \div Pow2(PowBits) = 1 THEN a
        ELSE IF n \div Pow2(PowBits) = 2 THEN FMul(a, a)
        ELSE FMul(FMul(a, a), a),
        LAMBDA whole :
            IF n % Pow2(PowBits) = 0 THEN whole
            ELSE PowFrac(FSqrt(a), n % Pow2(PowBits), PowBits, whole))

\* a ** x for a > 0 and a float 0 <= x < 4: the integer part of x by
\* multiplication, its fraction (to PowBits binary digits) by square roots.
\* It is exact to rounding for x = 2, 1, 1/2 and, like pow, it is
\* non-decreasing in a.
FPow(a, x) ==
    CHOOSE r \in
        {PowOf(v[1], (v[2].m * Pow2(PowBits + MantBits + v[2].e)) \div Pow2(MantBits))
         : v \in {<<a, x>>}} : TRUE

\* Number of terms of the series that stands for e ** t.
ExpTerms == 6

\* e ** t by its series in Horner form from the innermost term outwards,
\* every step rounded: acc is the value of the terms after the k-th.
RECURSIVE ExpHorner(_, _, _)
ExpHorner(t, k, acc) ==
    IF k = 0 THEN acc
    ELSE CHOOSE r \in {ExpHorner(t, k - 1, v)
                       : v \in {FAdd(FI(1), FMul(FDiv(t, FI(k)), acc))}} : TRUE

FExp(t) == CHOOSE r \in {ExpHorner(v, ExpTerms, FI(1)) : v \in {t}} : TRUE

(***************************************************************************)
(* Results of calls: a value, or the class of the exception raised.        *)
(***************************************************************************)
Ok(v) == [err |-> "none", val |-> v]

Raise(kind) == [err |-> kind, val |-> Zero]

(***************************************************************************)
(* utils.linterp                                                           *)
(***************************************************************************)
linterp(x_1, y_1, x_2, y_2, x_3) ==
    LET dx == FSub(x_2, x_1)
    IN  IF dx.m = 0 THEN Raise("ZeroDivisionError")
        ELSE Ok(FAdd(y_1, FMul(FDiv(FSub(y_2, y_1), dx), FSub(x_3, x_1))))

(***************************************************************************)
(* utils.linterp_dicts                                                     *)
(* A leaf is a number (int | float | Quantity) or any other value (here a  *)
(* string).  A dict is a function from keys to dicts of leaves; a Python   *)
(* dict is iterated in insertion order, here the order of KeyOrder.        *)
(***************************************************************************)
Num(y) == [kind |-> "num", num |-> y, str |-> ""]

Str(s) == [kind |-> "str", num |-> Zero, str |-> s]

KeyOrder ==
    <<"windward", "leeward", "side", "d<=h/2", "d<=h", "d<=2h", "d>2h", "3+",
      "kind", "c1", "c2", "c3", "p_min", "q_z">>

Keys(d) == SelectSeq(KeyOrder, LAMBDA k : k \in DOMAIN d)

\* The loop body copying non-numeric leaves from dict_2 and returning dict_2's
\* numeric leaf at x_1.
linterp_leaf_from_second(x_1, l_1, x_2, l_2, x_3) ==
    IF l_1.kind = "num"
    THEN IF l_2.kind # "num" THEN Raise("TypeError")
         ELSE LET r == linterp(x_2, l_2.num, x_1, l_1.num, x_3)
              IN  IF r.err = "none" THEN Ok(Num(r.val)) ELSE Raise(r.err)
    ELSE Ok(l_2)

\* One pass of the inner loop body (lines 88-98): the new leaf, or the error.
linterp_leaf(x_1, l_1, x_2, l_2, x_3) ==
    IF l_1.kind = "num"
    THEN IF l_2.kind # "num" THEN Raise("TypeError")
         ELSE LET r == linterp(x_1, l_1.num, x_2, l_2.num, x_3)
              IN  IF r.err = "none" THEN Ok(Num(r.val)) ELSE Raise(r.err)
    ELSE Ok(l_1)

\* The leaves visited, in iteration order, as <<key_1, key_2>> pairs.
RECURSIVE LeafPath(_, _, _)
LeafPath(d, ks, i) ==
    IF i > Len(ks) THEN <<>>
    ELSE LET k1 == ks[i]
             k2s == Keys(d[k1])
         IN  [j \in 1..Len(k2s) |-> <<k1, k2s[j]>>] \o LeafPath(d, ks, i + 1)

linterp_dicts(x_1, dict_1, x_2, dict_2, x_3) ==
    Let(<<x_1, dict_1, x_2, dict_2, x_3, LeafPath(dict_1, Keys(dict_1), 1)>>, LAMBDA a :
    Let([i \in 1..Len(a[6]) |->
            linterp_leaf(a[1], a[2][a[6][i][1]][a[6][i][2]],
                         a[3], a[4][a[6][i][1]][a[6][i][2]], a[5])], LAMBDA leaves :
        LET failed == SelectSeq(leaves, LAMBDA l : l.err # "none")
        IN  IF failed # <<>> THEN Raise(Head(failed).err)
            ELSE Ok([k1 \in DOMAIN a[2] |->
                        [k2 \in DOMAIN a[2][k1] |->
                            leaves[CHOOSE i \in 1..Len(a[6]) :
                                       a[6][i] = <<k1, k2>>].val]])))

\* Error kinds of the specification, as the code raises them.
DomainError == "ValueError"

ConfigurationError == "ValueError"

NotSupportedError == "NotImplementedError"

LookupError == "KeyError"

(***************************************************************************)
(* utils.fill_templates                                                    *)
(* variables is the caller's locals(); the value returned is the bare      *)
(* return value, or the tuple (latex, return value).                       *)
(***************************************************************************)
Bare(v) == [tuple |-> FALSE, latex |-> "", val |-> v]

Pair(text, v) == [tuple |-> TRUE, latex |-> text, val |-> v]

LatexDefaults == [show |-> FALSE, return_latex |-> FALSE]

fill_templates(main_template, variables, return_val) ==
    LET latex_options ==
            IF "latex_options" \in DOMAIN variables
            THEN variables.latex_options
            ELSE LatexDefaults
    IN  IF ~(latex_options.show \/ latex_options.return_latex)
        THEN Ok(Bare(return_val))
        ELSE IF latex_options.return_latex
        THEN Ok(Pair(main_template, return_val))
        ELSE Ok(Bare(return_val))

\* "a, b = r": the tuple unpacked, or the TypeError of unpacking a bare value.
Unpack(r) ==
    IF r.err # "none" THEN Raise(r.err)
    ELSE IF ~r.val.tuple THEN Raise("TypeError")
    ELSE Ok(r.val.val)

(***************************************************************************)
(* Catalogs read by the primitives (resource files of the package).        *)
(***************************************************************************)
\* ASCE_TopoCoefficients.json
TopoCoefs ==
    [ridge |->
        [K_1 |-> [B |-> F(130, 100), C |-> F(145, 100), D |-> F(155, 100)],
         mu |-> [upwind |-> F(15, 10), downwind |-> F(15, 10)],
         gamma |-> FI(3)],
     escarpment |->
        [K_1 |-> [B |-> F(75, 100), C |-> F(85, 100), D |-> F(95, 100)],
         mu |-> [upwind |-> F(15, 10), downwind |-> FI(4)],
         gamma |-> F(25, 10)],
     hill |->
        [K_1 |-> [B |-> F(95, 100), C |-> F(105, 100), D |-> F(115, 100)],
         mu |-> [upwind |-> F(15, 10), downwind |-> F(15, 10)],
         gamma |-> FI(4)]]

\* ASCE_Table_26-11-1.csv, one row per exposure category
TerrainTable ==
    [B |-> [alpha |-> F(75, 10), z_g |-> FI(3280), c |-> F(30, 100),
            l |-> FI(320), epsilon_bar |-> F(1, 3), z_min |-> FI(30)],
     C |-> [alpha |-> F(98, 10), z_g |-> FI(2460), c |-> F(20, 100),
            l |-> FI(500), epsilon_bar |-> F(1, 5), z_min |-> FI(15)],
     D |-> [alpha |-> F(115, 10), z_g |-> FI(1935), c |-> F(15, 100),
            l |-> FI(650), epsilon_bar |-> F(1, 8), z_min |-> FI(7)]]

(***************************************************************************)
(* utils.get_table_entry                                                   *)
(***************************************************************************)
get_table_entry(table, index) ==
    IF index \in DOMAIN table THEN Ok(table[index])
    ELSE Raise("UnboundLocalError")

(***************************************************************************)
(* wind_loading.calc_K_zt                                                  *)
(***************************************************************************)
\* calc_K_zt with K_1 taken without the height of the feature.
calc_K_zt_ignoring_H(feature, H, L_h, x, z, exposure, location, markdown_options) ==
    IF feature \notin DOMAIN TopoCoefs THEN Raise("KeyError")
    ELSE IF exposure \notin DOMAIN TopoCoefs[feature].K_1 THEN Raise("KeyError")
    ELSE IF location \notin DOMAIN TopoCoefs[feature].mu THEN Raise("KeyError")
    ELSE
    Let(FMax(L_h, FMul(FI(2), H)), LAMBDA L_h_bounded :
        IF L_h_bounded.m = 0 THEN Raise("ZeroDivisionError")
        ELSE
        LET topo_coefs == TopoCoefs[feature]
            K_1 == FDiv(topo_coefs.K_1[exposure], L_h_bounded)
            K_2 == FSub(FI(1), FDiv(FAbs(x), FMul(topo_coefs.mu[location], L_h_bounded)))
            K_3 == FExp(FDiv(FMul(FNeg(topo_coefs.gamma), z), L_h_bounded))
        IN  Let(FAdd(FI(1), FMul(FMul(K_1, K_2), K_3)), LAMBDA s :
                Ok(Bare(FMul(s, s)))))

calc_K_zt(feature, H, L_h, x, z, exposure, location, markdown_options) ==
    IF feature \notin DOMAIN TopoCoefs THEN Raise("KeyError")
    ELSE IF exposure \notin DOMAIN TopoCoefs[feature].K_1 THEN Raise("KeyError")
    ELSE IF location \notin DOMAIN TopoCoefs[feature].mu THEN Raise("KeyError")
    ELSE
    Let(FMax(L_h, FMul(FI(2), H)), LAMBDA L_h_bounded :
        IF L_h_bounded.m = 0 THEN Raise("ZeroDivisionError")
        ELSE
        LET topo_coefs == TopoCoefs[feature]
            K_1_factor == topo_coefs.K_1[exposure]
            mu         == topo_coefs.mu[location]
            gamma      == topo_coefs.gamma
            K_1 == FDiv(FMul(K_1_factor, H), L_h_bounded)
            K_2 == FSub(FI(1), FDiv(FAbs(x), FMul(mu, L_h_bounded)))
            K_3 == FExp(FDiv(FMul(FNeg(gamma), z), L_h_bounded))
        IN  Let(FAdd(FI(1), FMul(FMul(K_1, K_2), K_3)), LAMBDA s :
            Let(FMul(s, s), LAMBDA K_zt :
                fill_templates("calc_K_zt",
                    [markdown_options |-> markdown_options, K_zt |-> K_zt], K_zt))))

(***************************************************************************)
(* wind_loading.calc_K_z                                                   *)
(***************************************************************************)
\* calc_K_z without the upper bound of the elevation check.
calc_K_z_unbounded_above(z, z_g, alpha, subscript, markdown_options) ==
    IF FLt(z, FI(0)) THEN Raise("ValueError")
    ELSE IF z_g.m = 0 \/ alpha.m = 0 THEN Raise("ZeroDivisionError")
    ELSE Ok(Bare(FMul(F(241, 100),
                 FPow(FDiv(FMax(FMin(z, z_g), FI(15)), z_g), FDiv(FI(2), alpha)))))

\* calc_K_z without the 15 ft lower clamp.
calc_K_z_unclamped_below(z, z_g, alpha, subscript, markdown_options) ==
    IF FLt(z, FI(0)) \/ FLt(FI(3280), z) THEN Raise("ValueError")
    ELSE IF z_g.m = 0 \/ alpha.m = 0 THEN Raise("ZeroDivisionError")
    ELSE Ok(Bare(FMul(F(241, 100),
                 FPow(FDiv(FMin(z, z_g), z_g), FDiv(FI(2), alpha)))))

calc_K_z(z, z_g, alpha, subscript, markdown_options) ==
    IF FLt(z, FI(0)) \/ FLt(FI(3280), z) THEN Raise("ValueError")
    ELSE IF z_g.m = 0 \/ alpha.m = 0 THEN Raise("ZeroDivisionError")
    ELSE
    Let(FMul(F(241, 100),
             FPow(FDiv(FMax(FMin(z, z_g), FI(15)), z_g), FDiv(FI(2), alpha))),
        LAMBDA K_z :
        fill_templates("calc_K_z",
            [markdown_options |-> markdown_options, subscript |-> subscript,
             K_z |-> K_z], K_z))

(***************************************************************************)
(* wind_loading.calc_q_z                                                   *)
(***************************************************************************)
\* Quantity.to("mph"): the magnitude times the factor of the unit.
to_mph(V) ==
    IF V.unit = "mph" THEN V.mag ELSE FMul(V.mag, F(3600, 5280))

\* calc_q_z with the wind speed not squared.
calc_q_z_linear(K_z, K_zt, K_e, V, subscript, markdown_options) ==
    Ok(Bare(FMul(FMul(FMul(FMul(F(256, 100000), K_z), K_zt), K_e), to_mph(V))))

calc_q_z(K_z, K_zt, K_e, V, subscript, markdown_options) ==
    LET mag == to_mph(V)
    IN
    Let(FMul(FMul(FMul(FMul(F(256, 100000), K_z), K_zt), K_e), FMul(mag, mag)),
        LAMBDA q_z :
        fill_templates("calc_q_z",
            [markdown_options |-> markdown_options, subscript |-> subscript,
             q_z |-> q_z], q_z))

(***************************************************************************)
(* wind_loading.calc_wind_server_inputs                                    *)
(* An optional argument is [some, v]: None is some = FALSE.                *)
(***************************************************************************)
None == [some |-> FALSE, v |-> Zero]

Some(v) == [some |-> TRUE, v |-> v]

\* "if h_p:" is false for None and for a zero Quantity.
Truthy(o) == o.some /\ o.v.m # 0

\* Equations 26.11-6 to 26.11-9 for one axis; L is the cross-axis length.
calc_G(values, L, h) ==
    LET g_Q == F(34, 10)
        g_v == F(34, 10)
    IN
    Let(FMax(FMul(F(6, 10), h), values.z_min), LAMBDA z_bar :
    Let(FMul(values.c, FPow(FDiv(FI(33), z_bar), FDiv(FI(1), FI(6)))), LAMBDA I_z :
        LET L_z == FMul(values.l, FPow(FDiv(z_bar, FI(33)), values.epsilon_bar))
            Q   == FSqrt(FDiv(FI(1),
                       FAdd(FI(1), FMul(F(63, 100),
                           FPow(FDiv(FAdd(L, h), L_z), F(63, 100))))))
        IN  FMul(F(925, 1000),
                 FDiv(FAdd(FI(1), FMul(FMul(FMul(F(17, 10), g_Q), I_z), Q)),
                      FAdd(FI(1), FMul(FMul(F(17, 10), g_v), I_z))))))

\* Line 267: the C&C zone dimension a.
calc_a(L_x, L_y, h) ==
    FMax(FMax(FMin(FMin(FMul(F(1, 10), L_x), FMul(F(1, 10), L_y)), FMul(F(4, 10), h)),
              FMul(F(4, 100), FMin(L_x, L_y))),
         FI(3))

calc_wind_server_inputs(V, exposure, building_type, L_x, L_y, h, roof_angle, K_zt, Z_e, h_p, markdown_options) ==
    LET table  == get_table_entry(TerrainTable, exposure)
        values == table.val
        traced == [return_markdown |-> TRUE]
    IN  IF table.err # "none" THEN Raise(table.err)
        ELSE
    Let(FExp(FMul(F(-362, 10000000), Z_e)), LAMBDA K_e :
    Let(Unpack(calc_K_z(h, values.z_g, values.alpha, "h", traced)), LAMBDA K_h :
        IF K_h.err # "none" THEN Raise(K_h.err)
        ELSE
    Let(Unpack(calc_q_z(K_h.val, K_zt, K_e, V, "h", traced)), LAMBDA q_h :
        IF q_h.err # "none" THEN Raise(q_h.err)
        ELSE
    Let(IF Truthy(h_p)
        THEN Unpack(calc_K_z(h_p.v, values.z_g, values.alpha, "p", traced))
        ELSE Ok(Zero), LAMBDA K_p :
        IF K_p.err # "none" THEN Raise(K_p.err)
        ELSE
    Let(IF Truthy(h_p)
        THEN Unpack(calc_q_z(K_p.val, K_zt, K_e, V, "p", traced))
        ELSE Ok(Zero), LAMBDA q_p :
        IF q_p.err # "none" THEN Raise(q_p.err)
        ELSE
        fill_templates("calc_wind_server_inputs",
            [markdown_options |-> markdown_options],
            [V |-> V, building_type |-> building_type, roof_angle |-> roof_angle,
             L_x |-> L_x, L_y |-> L_y, h |-> h, K_zt |-> K_zt,
             z_g |-> values.z_g, alpha |-> values.alpha, K_e |-> K_e,
             q_h |-> q_h.val,
             q_p |-> IF Truthy(h_p) THEN Some(q_p.val) ELSE None,
             G_x |-> calc_G(values, L_y, h),
             G_y |-> calc_G(values, L_x, h),
             a |-> calc_a(L_x, L_y, h)]))))))

(***************************************************************************)
(* ASCE_MainWindCoefficients.json: per building type the parapet, wall and *)
(* roof tables of ASCE 7-22 Figure 27.3-1.  The file is a resource of the  *)
(* package; the floor of the parapet rows and the building types it lists  *)
(* are left open (CatalogVariants).                                        *)
(***************************************************************************)
Row(c1, c2, p_min) ==
    [c1 |-> Num(F(c1, 100)), c2 |-> Num(F(c2, 100)), p_min |-> Str(p_min)]

RowAt(c1, c2, p_min, q) ==
    [c1 |-> Num(F(c1, 100)), c2 |-> Num(F(c2, 100)), p_min |-> Str(p_min),
     q_z |-> Str(q)]

WallTable(leeward) ==
    [windward |-> RowAt(80, 80, "16 psf", "q_z"),
     leeward |-> Row(leeward, leeward, "16 psf"),
     side |-> Row(-70, -70, "16 psf")]

RoofParallelTable(near, mid, far, beyond) ==
    ("d<=h/2" :> Row(near, -18, "8 psf")) @@ ("d<=h" :> Row(mid, -18, "8 psf"))
    @@ ("d<=2h" :> Row(far, -18, "8 psf")) @@ ("d>2h" :> Row(beyond, -18, "8 psf"))

RoofAngleKeys == <<"10", "15", "20", "25", "30", "35", "45", "60", "80">>

RoofNormalTable(c1s, c2s, leewards) ==
    [k \in {RoofAngleKeys[i] : i \in 1..9} |->
        LET i == CHOOSE j \in 1..9 : RoofAngleKeys[j] = k
        IN  [windward |-> Row(c1s[i], c2s[i], "8 psf"),
             leeward |-> Row(leewards[i], leewards[i], "8 psf")]]

MainWindTypeCoefs(parapet_p_min) ==
    [parapet |->
        [windward |-> RowAt(150, 150, parapet_p_min, "q_p"),
         leeward |-> RowAt(-100, -100, parapet_p_min, "q_p")],
     wall |->
        ("L/B=1" :> WallTable(-50)) @@ ("L/B=2" :> WallTable(-30))
        @@ ("L/B=4" :> WallTable(-20)),
     roof_parallel |->
        ("h/L=0.5" :> RoofParallelTable(-90, -90, -50, -30))
        @@ ("h/L=1" :> RoofParallelTable(-130, -70, -70, -70)),
     roof_normal |->
        ("h/L=0.25" :> RoofNormalTable(
            <<-70, -50, -30, -20, -20, 0, 40, 60, 80>>,
            <<-18, 0, 20, 30, 30, 40, 40, 60, 80>>,
            <<-30, -50, -60, -60, -60, -60, -60, -60, -60>>))
        @@ ("h/L=0.5" :> RoofNormalTable(
            <<-90, -70, -40, -30, -20, -20, 0, 60, 80>>,
            <<-18, -18, 0, 20, 20, 30, 40, 60, 80>>,
            <<-50, -50, -60, -60, -60, -60, -60, -60, -60>>))
        @@ ("h/L=1" :> RoofNormalTable(
            <<-130, -100, -70, -50, -30, -20, 0, 60, 80>>,
            <<-18, -18, -18, 0, 20, 20, 30, 60, 80>>,
            <<-70, -60, -60, -60, -60, -60, -60, -60, -60>>))]

MainWindCoefs(variant) ==
    Let(MainWindTypeCoefs(variant.parapet_p_min), LAMBDA type_coefs :
        [t \in variant.types |-> type_coefs])

CatalogVariants ==
    {[types |-> {"low-rise", "mid-rise"}, parapet_p_min |-> "16 psf"],
     [types |-> {"low-rise", "mid-rise", "open"}, parapet_p_min |-> "0 psf"]}

\* unit("16 psf"): the magnitude in psf of a pressure written in the catalog.
unit(text) ==
    IF text = "0 psf" THEN FI(0)
    ELSE IF text = "8 psf" THEN FI(8)
    ELSE IF text = "10 psf" THEN FI(10)
    ELSE FI(16)

(***************************************************************************)
(* wind_loading.MainWindServer.__init__                                    *)
(* kw holds the merged attributes (keyword over file value).               *)
(***************************************************************************)
\* The code's tuple of tabulated roof angles.
roof_angles == <<10, 15, 20, 25, 30, 35, 45, 60, 80>>

\* Python's t[i] on a tuple: negative i counts from the end.
PyIndexOk(t, i) == -Len(t) <= i /\ i < Len(t)

PyIndex(t, i) == IF i >= 0 THEN i + 1 ELSE Len(t) + i + 1

\* Lines 389-404: the wall table of one axis.
wall_coefs(type_coefs, L, B) ==
    LET x_3 == FDiv(L, B)
    IN  IF B.m = 0 THEN Raise("ZeroDivisionError")
        ELSE IF FLe(x_3, FI(1)) THEN Ok(type_coefs.wall["L/B=1"])
        ELSE IF FLe(x_3, FI(2))
        THEN linterp_dicts(FI(1), type_coefs.wall["L/B=1"],
                           FI(2), type_coefs.wall["L/B=2"], x_3)
        ELSE IF FLe(x_3, FI(4))
        THEN linterp_dicts(FI(2), type_coefs.wall["L/B=2"],
                           FI(4), type_coefs.wall["L/B=4"], x_3)
        ELSE Ok(type_coefs.wall["L/B=4"])

\* Lines 423-425: the positions in roof_angles of the two angles used.
angle_index(roof_angle) ==
    Cardinality({i \in 1..Len(roof_angles) : FLt(FI(roof_angles[i]), roof_angle)})

\* Line 425: the positions in roof_angles of roof_angles[angle_index-1] and
\* roof_angles[angle_index].
angle_positions(roof_angle) ==
    <<PyIndex(roof_angles, angle_index(roof_angle) - 1),
      PyIndex(roof_angles, angle_index(roof_angle))>>

\* Lines 426-431: the table of one h/L ratio at the roof angle.
roof_normal_dict(type_coefs, ratio, roof_angle) ==
    LET a0 == angle_positions(roof_angle)[1]
        a1 == angle_positions(roof_angle)[2]
    IN  linterp_dicts(
            FI(roof_angles[a0]), type_coefs.roof_normal[ratio][RoofAngleKeys[a0]],
            FI(roof_angles[a1]), type_coefs.roof_normal[ratio][RoofAngleKeys[a1]],
            roof_angle)

\* The roof table of one axis with a missing ridge_axis read as "wind parallel
\* to the ridge".
roof_coefs_parallel_without_ridge(type_coefs, axis, L, h, ridge_axis, roof_angle) ==
    LET x_3 == FDiv(h, L)
    IN  IF L.m = 0 THEN Raise("ZeroDivisionError")
        ELSE IF FLe(x_3, F(5, 10)) THEN Ok(type_coefs.roof_parallel["h/L=0.5"])
        ELSE IF FLe(x_3, FI(1))
        THEN linterp_dicts(F(5, 10), type_coefs.roof_parallel["h/L=0.5"],
                           FI(1), type_coefs.roof_parallel["h/L=1"], x_3)
        ELSE Ok(type_coefs.roof_parallel["h/L=1"])

\* Lines 406-444: the roof table of one axis.
roof_coefs(type_coefs, axis, L, h, ridge_axis, roof_angle) ==
    LET x_3 == FDiv(h, L)
        i == angle_index(roof_angle)
    IN  IF L.m = 0 THEN Raise("ZeroDivisionError")
        ELSE IF ridge_axis = axis \/ FLt(roof_angle, FI(10))
        THEN IF FLe(x_3, F(5, 10)) THEN Ok(type_coefs.roof_parallel["h/L=0.5"])
             ELSE IF FLe(x_3, FI(1))
             THEN linterp_dicts(F(5, 10), type_coefs.roof_parallel["h/L=0.5"],
                                FI(1), type_coefs.roof_parallel["h/L=1"], x_3)
             ELSE Ok(type_coefs.roof_parallel["h/L=1"])
        ELSE IF ridge_axis # "None"
        THEN IF ~PyIndexOk(roof_angles, i - 1) \/ ~PyIndexOk(roof_angles, i)
             THEN Raise("IndexError")
             ELSE
             Let([ratio \in {"h/L=0.25", "h/L=0.5", "h/L=1"} |->
                     roof_normal_dict(type_coefs, ratio, roof_angle)], LAMBDA d :
                 IF d["h/L=0.25"].err # "none" THEN Raise(d["h/L=0.25"].err)
                 ELSE IF d["h/L=0.5"].err # "none" THEN Raise(d["h/L=0.5"].err)
                 ELSE IF d["h/L=1"].err # "none" THEN Raise(d["h/L=1"].err)
                 ELSE IF FLe(x_3, F(25, 100)) THEN d["h/L=0.25"]
                 ELSE IF FLe(x_3, F(5, 10))
                 THEN linterp_dicts(F(25, 100), d["h/L=0.25"].val,
                                    F(5, 10), d["h/L=0.5"].val, x_3)
                 ELSE IF FLe(x_3, FI(1))
                 THEN linterp_dicts(F(5, 10), d["h/L=0.5"].val,
                                    FI(1), d["h/L=1"].val, x_3)
                 ELSE d["h/L=1"])
        ELSE Raise("ValueError")

MainWindServer_init(kw, catalog) ==
    IF ~kw.GC_pi.some THEN Raise("TypeError")
    ELSE IF kw.building_type \notin DOMAIN catalog THEN Raise("KeyError")
    ELSE IF kw.building_type \in {"low-rise", "mid-rise"}
    THEN
    Let(catalog[kw.building_type], LAMBDA type_coefs :
    Let([wall_x |-> wall_coefs(type_coefs, kw.L_x, kw.L_y),
         wall_y |-> wall_coefs(type_coefs, kw.L_y, kw.L_x),
         roof_x |-> roof_coefs(type_coefs, "x", kw.L_x, kw.h, kw.ridge_axis,
                               kw.roof_angle),
         roof_y |-> roof_coefs(type_coefs, "y", kw.L_y, kw.h, kw.ridge_axis,
                               kw.roof_angle)], LAMBDA c :
        IF c.wall_x.err # "none" THEN Raise(c.wall_x.err)
        ELSE IF c.wall_y.err # "none" THEN Raise(c.wall_y.err)
        ELSE IF c.roof_x.err # "none" THEN Raise(c.roof_x.err)
        ELSE IF c.roof_y.err # "none" THEN Raise(c.roof_y.err)
        ELSE Ok([built |-> TRUE,
                 building_type |-> kw.building_type,
                 roof_angle |-> kw.roof_angle,
                 ridge_axis |-> kw.ridge_axis,
                 L_x |-> kw.L_x, L_y |-> kw.L_y, h |-> kw.h,
                 G |-> [x |-> kw.G_x, y |-> kw.G_y],
                 GC_pi |-> FAbs(kw.GC_pi.v),
                 K_d |-> kw.K_d, K_zt |-> kw.K_zt, K_e |-> kw.K_e,
                 V |-> kw.V, z_g |-> kw.z_g, alpha |-> kw.alpha,
                 q_h |-> kw.q_h, q_p |-> kw.q_p,
                 coefs |->
                   [x |-> [parapet |-> type_coefs.parapet,
                           wall |-> c.wall_x.val, roof |-> c.roof_x.val],
                    y |-> [parapet |-> type_coefs.parapet,
                           wall |-> c.wall_y.val, roof |-> c.roof_y.val]]])))
    ELSE IF kw.building_type = "open" THEN Raise("NotImplementedError")
    ELSE Raise("ValueError")

(***************************************************************************)
(* wind_loading.MainWindServer.get_load                                    *)
(* location is a string tag, Str(tag), or a Length, Num(d).                *)
(***************************************************************************)
\* The key of a location with the roof bands open at their upper ends: a
\* distance equal to a limit falls in the band beyond it.
resolve_location_exclusive(self, element, location) ==
    IF location.kind = "str" THEN location
    ELSE IF element = "roof"
    THEN IF FLt(location.num, FDiv(self.h, FI(2))) THEN Str("d<=h/2")
         ELSE IF FLt(location.num, self.h) THEN Str("d<=h")
         ELSE IF FLt(location.num, FMul(FI(2), self.h)) THEN Str("d<=2h")
         ELSE Str("d>2h")
    ELSE IF element = "wall" THEN Str("windward")
    ELSE location

\* Lines 478-490: the key the location is looked up under.
resolve_location(self, element, location) ==
    IF location.kind = "str" THEN location
    ELSE IF element = "roof"
    THEN IF FLe(location.num, FDiv(self.h, FI(2))) THEN Str("d<=h/2")
         ELSE IF FLe(location.num, self.h) THEN Str("d<=h")
         ELSE IF FLe(location.num, FMul(FI(2), self.h)) THEN Str("d<=2h")
         ELSE Str("d>2h")
    ELSE IF element = "wall" THEN Str("windward")
    ELSE location

\* Lines 494-501: the velocity pressure of the entry; None is a q_p never set.
select_q_z(self, coefs, location) ==
    LET source == IF "q_z" \in DOMAIN coefs THEN coefs.q_z.str ELSE "q_h"
        K_z == calc_K_z(location.num, self.z_g, self.alpha, "z",
                        [return_markdown |-> FALSE])
        q_z == calc_q_z(K_z.val.val, self.K_zt, self.K_e, self.V, "z",
                        [return_markdown |-> FALSE])
    IN  IF source = "q_h" THEN Ok(Some(self.q_h))
        ELSE IF source = "q_z"
        THEN IF location.kind = "str" THEN Raise("UnboundLocalError")
             ELSE IF K_z.err # "none" THEN Raise(K_z.err)
             ELSE Ok(Some(q_z.val.val))
        ELSE IF source = "q_p" THEN Ok(self.q_p)
        ELSE Raise("UnboundLocalError")

\* Line 509: max(abs(p), p_min)*sign(p)
floor_pressure(p, p_min) == FMul(FMax(FAbs(p), p_min), FSign(p))

\* Line 506
parapet_pressure(self, axis, q_z, C_p) == FMul(FMul(q_z, self.K_d), C_p)

\* Line 508 with the internal pressure taken at the velocity pressure of the
\* external term.
element_pressure_internal_at_q_z(self, axis, q_z, C_p) ==
    FAdd(FMul(FMul(FMul(q_z, self.K_d), self.G[axis]), C_p),
         FMul(FMul(FMul(q_z, self.K_d), self.GC_pi), FSign(C_p)))

\* Line 508
element_pressure(self, axis, q_z, C_p) ==
    FAdd(FMul(FMul(FMul(q_z, self.K_d), self.G[axis]), C_p),
         FMul(FMul(FMul(self.q_h, self.K_d), self.GC_pi), FSign(C_p)))

\* Lines 505-508 with the parapet branch lost.
unfloored_pressure_without_parapet_case(self, axis, element, q_z, C_p) ==
    element_pressure(self, axis, q_z, C_p)

unfloored_pressure(self, axis, element, q_z, C_p) ==
    IF element = "parapet" THEN parapet_pressure(self, axis, q_z, C_p)
    ELSE element_pressure(self, axis, q_z, C_p)

MainWindServer_get_load(self, axis, element, location) ==
    LET key == resolve_location(self, element, location)
        coefs == self.coefs[axis][element][key.str]
        p_min == unit(coefs.p_min.str)
    IN  IF axis \notin DOMAIN self.coefs THEN Raise("KeyError")
        ELSE IF element \notin DOMAIN self.coefs[axis] THEN Raise("KeyError")
        ELSE IF key.kind # "str" THEN Raise("KeyError")
        ELSE IF key.str \notin DOMAIN self.coefs[axis][element] THEN Raise("KeyError")
        ELSE
        Let(select_q_z(self, coefs, location), LAMBDA q_z :
            IF q_z.err # "none" THEN Raise(q_z.err)
            ELSE IF ~q_z.val.some THEN Raise("TypeError")
            ELSE Ok(<<floor_pressure(unfloored_pressure(self, axis, element,
                                         q_z.val.v, coefs.c1.num), p_min),
                      floor_pressure(unfloored_pressure(self, axis, element,
                                         q_z.val.v, coefs.c2.num), p_min)>>))

(***************************************************************************)
(* ASCE_CandCCoefficients.json: per building type the zone tables of ASCE  *)
(* 7-22 Chapter 30.  A zone record maps its keys to leaves; a JSON true is *)
(* the number 1, as a Python bool is an int.  The file is a resource of    *)
(* the package: the building types it lists and the optional keys of its   *)
(* composite zone and of the zone that one names are left open             *)
(* (CandCVariants).                                                        *)
(***************************************************************************)
SingleLog(c1, c2, low_limit, high_limit) ==
    [kind |-> Str("single_log"), c1 |-> Num(F(c1, 1000)), c2 |-> Num(F(c2, 1000)),
     low_limit |-> Num(FI(low_limit)), high_limit |-> Num(FI(high_limit))]

DoubleLog(e1c1, e1c2, e2c1, e2c2, low_limit, break_point, high_limit) ==
    [kind |-> Str("double_log"),
     e1c1 |-> Num(F(e1c1, 1000)), e1c2 |-> Num(F(e1c2, 1000)),
     e2c1 |-> Num(F(e2c1, 1000)), e2c2 |-> Num(F(e2c2, 1000)),
     low_limit |-> Num(FI(low_limit)), break_point |-> Num(FI(break_point)),
     high_limit |-> Num(FI(high_limit))]

ConstantsZone(c1, c2, c3) ==
    [kind |-> Str("constants"), c1 |-> Num(F(c1, 1000)), c2 |-> Num(F(c2, 1000)),
     c3 |-> Num(F(c3, 1000))]

CompositeZone(positive_zone, negative_zone) ==
    [kind |-> Str("composite"), positive_zone |-> Str(positive_zone),
     negative_zone |-> Str(negative_zone)]

\* The optional keys of a zone record: use_q_p, GC_pi, p_min.
WithOptions(zone, options) ==
    (IF "use_q_p" \in options THEN [use_q_p |-> Num(FI(1))] ELSE [kind |-> zone.kind])
    @@ (IF "GC_pi" \in options THEN [GC_pi |-> Num(F(55, 100))] ELSE [kind |-> zone.kind])
    @@ (IF "p_min" \in options THEN [p_min |-> Str("10 psf")] ELSE [kind |-> zone.kind])
    @@ zone

RoofTable(c1) ==
    ("1-" :> SingleLog(c1, 412, 10, 500))
    @@ ("2-" :> DoubleLog(-900, 0, -1900, 500, 10, 100, 1000))

CandCLowRise(variant) ==
    [walls |->
        ("4+" :> WithOptions(SingleLog(1177, -177, 10, 500), variant.positive))
        @@ ("4-" :> SingleLog(-1277, 177, 10, 500))
        @@ ("parapet" :> WithOptions(CompositeZone(variant.positive_zone, "1-"),
                                     variant.composite))
        @@ ("louver" :> [kind |-> Str("table"), c1 |-> Num(FI(1))]),
     flat |-> RoofTable(-2112),
     low_gable |-> RoofTable(-2400), mid_gable |-> RoofTable(-1900),
     high_gable |-> RoofTable(-1600),
     low_hip |-> RoofTable(-2200), mid_hip |-> RoofTable(-1800),
     high_hip |-> RoofTable(-1500),
     low_canopy |-> ("canopy" :> SingleLog(-800, 100, 10, 100)),
     mid_canopy |-> ("canopy" :> SingleLog(-1000, 100, 10, 100)),
     high_canopy |-> ("canopy" :> SingleLog(-1200, 100, 10, 100))]

OpenTable(c1, c2, c3) == ("3+" :> ConstantsZone(c1, c2, c3))

CandCOpen ==
    ("monoslope_clear_0" :> OpenTable(2400, 1800, 1200))
    @@ ("monoslope_clear_7.5" :> OpenTable(3200, 2400, 1600))
    @@ ("monoslope_clear_15" :> OpenTable(3600, 2700, 1800))
    @@ ("monoslope_clear_30" :> OpenTable(5200, 3900, 2600))
    @@ ("monoslope_clear_45" :> OpenTable(5200, 3900, 2600))
    @@ ("monoslope_obstructed_0" :> OpenTable(1000, 800, 500))
    @@ ("monoslope_obstructed_7.5" :> OpenTable(1600, 1200, 800))
    @@ ("monoslope_obstructed_15" :> OpenTable(2400, 1800, 1200))
    @@ ("monoslope_obstructed_30" :> OpenTable(3200, 2400, 1600))
    @@ ("monoslope_obstructed_45" :> OpenTable(4200, 3200, 2100))

CandCCoefs(variant) ==
    Let(<<CandCLowRise(variant), CandCOpen>>, LAMBDA t :
        [b \in variant.types |->
            IF b = "low-rise" THEN t[1] ELSE IF b = "open" THEN t[2] ELSE t[1]])

\* A file without and a file with an entry for mid-rise buildings.
CandCTypeVariants ==
    {[types |-> {"low-rise", "open"}, positive_zone |-> "4+",
      composite |-> {}, positive |-> {}],
     [types |-> {"low-rise", "mid-rise", "open"}, positive_zone |-> "4+",
      composite |-> {"use_q_p", "GC_pi"}, positive |-> {}]}

CandCVariants ==
    CandCTypeVariants \cup
    {[types |-> {"low-rise", "open"}, positive_zone |-> "4+",
      composite |-> {}, positive |-> {"use_q_p", "GC_pi"}],
     [types |-> {"low-rise", "open"}, positive_zone |-> "4+",
      composite |-> {"p_min"}, positive |-> {"p_min"}],
     [types |-> {"low-rise", "open"}, positive_zone |-> "parapet",
      composite |-> {}, positive |-> {}]}

(***************************************************************************)
(* CandCServer                                                             *)
(***************************************************************************)
low_rise_roof_key_exclusive(roof_type, roof_angle) ==
    IF FLt(roof_angle, FI(7)) THEN Ok("flat")
    ELSE IF FLt(roof_angle, FI(20)) THEN Ok("low_" \o roof_type)
    ELSE IF FLt(roof_angle, FI(27)) THEN Ok("mid_" \o roof_type)
    ELSE IF FLt(roof_angle, FI(45)) THEN Ok("high_" \o roof_type)
    ELSE Raise("ValueError")

\* The roof table of a low-rise building, by roof angle.
low_rise_roof_key(roof_type, roof_angle) ==
    IF FLe(roof_angle, FI(7)) THEN Ok("flat")
    ELSE IF FLe(roof_angle, FI(20)) THEN Ok("low_" \o roof_type)
    ELSE IF FLe(roof_angle, FI(27)) THEN Ok("mid_" \o roof_type)
    ELSE IF FLe(roof_angle, FI(45)) THEN Ok("high_" \o roof_type)
    ELSE Raise("ValueError")

\* The canopy table by h_c / h_e, "" without a canopy.
canopy_key(h_c, h_e) ==
    IF ~(Truthy(h_c) /\ Truthy(h_e)) THEN Ok("")
    ELSE Let(FDiv(h_c.v, h_e.v), LAMBDA ratio :
        IF FLe(ratio, F(5, 10)) THEN Ok("low_canopy")
        ELSE IF FLt(ratio, F(9, 10)) THEN Ok("mid_canopy")
        ELSE IF FLe(ratio, FI(1)) THEN Ok("high_canopy")
        ELSE Raise("ValueError"))

\* dict.update: the entries of the later table replace those of the earlier.
low_rise_coefs(self, type_coefs) ==
    IF "walls" \notin DOMAIN type_coefs THEN Raise("KeyError")
    ELSE IF ~self.roof_angle.some THEN Raise("TypeError")
    ELSE Let(low_rise_roof_key(self.roof_type, self.roof_angle.v), LAMBDA roof :
        IF roof.err # "none" THEN Raise(roof.err)
        ELSE IF roof.val \notin DOMAIN type_coefs THEN Raise("KeyError")
        ELSE Let(canopy_key(self.h_c, self.h_e), LAMBDA canopy :
            IF canopy.err # "none" THEN Raise(canopy.err)
            ELSE IF canopy.val = "" THEN Ok(type_coefs[roof.val] @@ type_coefs.walls)
            ELSE IF canopy.val \notin DOMAIN type_coefs THEN Raise("KeyError")
            ELSE Ok(type_coefs[canopy.val] @@ type_coefs[roof.val]
                    @@ type_coefs.walls)))

\* The tabulated slopes that bracket the roof angle of an open building, each
\* with its str().
open_slopes(roof_angle) ==
    IF FLe(roof_angle, F(75, 10)) THEN Ok(<<FI(0), "0", F(75, 10), "7.5">>)
    ELSE IF FLe(roof_angle, FI(15)) THEN Ok(<<F(75, 10), "7.5", FI(15), "15">>)
    ELSE IF FLe(roof_angle, FI(30)) THEN Ok(<<FI(15), "15", FI(30), "30">>)
    ELSE IF FLe(roof_angle, FI(45)) THEN Ok(<<FI(30), "30", FI(45), "45">>)
    ELSE Raise("ValueError")

open_coefs(self, type_coefs) ==
    IF ~self.roof_angle.some THEN Raise("TypeError")
    ELSE
    Let(open_slopes(self.roof_angle.v), LAMBDA slopes :
        IF slopes.err # "none" THEN Raise(slopes.err)
        ELSE LET key_1 == self.roof_type \o "_" \o slopes.val[2]
                 key_2 == self.roof_type \o "_" \o slopes.val[4]
             IN  IF key_1 \notin DOMAIN type_coefs \/ key_2 \notin DOMAIN type_coefs
                 THEN Raise("KeyError")
                 ELSE linterp_dicts(slopes.val[1], type_coefs[key_1],
                                    slopes.val[3], type_coefs[key_2],
                                    self.roof_angle.v))

CandC_attributes(kw) ==
    [built |-> TRUE, building_type |-> kw.building_type, roof_type |-> kw.roof_type,
     roof_angle |-> kw.roof_angle, a |-> kw.a, G |-> [x |-> kw.G_x, y |-> kw.G_y],
     GC_pi |-> FAbs(kw.GC_pi.v), h_c |-> kw.h_c, h_e |-> kw.h_e, K_d |-> kw.K_d,
     q_h |-> kw.q_h, q_p |-> kw.q_p]

\* CandCServer.__init__: the server, or the exception that ends construction.
CandCServer_init(kw, catalog) ==
    IF ~kw.GC_pi.some THEN Raise("TypeError")
    ELSE IF kw.building_type \notin DOMAIN catalog THEN Raise("KeyError")
    ELSE Let(<<CandC_attributes(kw), catalog[kw.building_type]>>, LAMBDA a :
        Let(IF kw.building_type = "low-rise" THEN low_rise_coefs(a[1], a[2])
            ELSE IF kw.building_type = "mid-rise" THEN Raise("NotImplementedError")
            ELSE IF kw.building_type = "open" THEN open_coefs(a[1], a[2])
            ELSE Raise("ValueError"),
            LAMBDA coefs :
                IF coefs.err # "none" THEN Raise(coefs.err)
                ELSE Ok([coefs |-> coefs.val] @@ a[1])))

\* numpy.log10 of the whole numbers of ft^2 that the areas and the limits of
\* the tables take.
Log10Table ==
    (1 :> Zero) @@ (5 :> F(69897, 100000)) @@ (10 :> FI(1))
    @@ (20 :> F(130103, 100000)) @@ (50 :> F(169897, 100000)) @@ (100 :> FI(2))
    @@ (200 :> F(230103, 100000)) @@ (500 :> F(269897, 100000)) @@ (1000 :> FI(3))
    @@ (2000 :> F(330103, 100000))

log10(x) ==
    Let(IF x.e >= 0 THEN x.m * Pow2(x.e) ELSE x.m \div Pow2(-(x.e)), LAMBDA n :
        Log10Table[n])

\* Depth of nested get_load calls at which Python raises RecursionError.
MaxDepth == 2

\* q_z*K_d*(GC_p + GC_pi*sign(GC_p))
log_pressure(self, q_z, GC_pi, GC_p) ==
    Let(GC_p, LAMBDA c :
        Ok(FMul(FMul(q_z, self.K_d), FAdd(c, FMul(GC_pi, FSign(c))))))

single_log_pressure(self, coefs, area, q_z, GC_pi) ==
    log_pressure(self, q_z, GC_pi,
        FAdd(coefs.c1.num,
             FMul(coefs.c2.num,
                  log10(FMin(FMax(area, coefs.low_limit.num), coefs.high_limit.num)))))

double_log_pressure(self, coefs, area, q_z, GC_pi) ==
    log_pressure(self, q_z, GC_pi,
        IF FLe(area, coefs.break_point.num)
        THEN FAdd(coefs.e1c1.num,
                  FMul(coefs.e1c2.num, log10(FMax(area, coefs.low_limit.num))))
        ELSE FAdd(coefs.e2c1.num,
                  FMul(coefs.e2c2.num, log10(FMin(area, coefs.high_limit.num)))))

\* The constants case with the area bands open at their upper ends.
constants_pressure_exclusive(self, coefs, area, G_method, q_z) ==
    LET a_2 == FMul(self.a, self.a)
        C_n == IF FLt(area, a_2) THEN coefs.c1.num
               ELSE IF FLt(area, FMul(FI(4), a_2)) THEN coefs.c2.num
               ELSE coefs.c3.num
        G   == IF G_method \in DOMAIN self.G THEN self.G[G_method]
               ELSE FMax(self.G.x, self.G.y)
    IN  Ok(FMul(FMul(FMul(q_z, self.K_d), G), C_n))

\* Lines 695-703
constants_pressure(self, coefs, area, G_method, q_z) ==
    LET a_2 == FMul(self.a, self.a)
        C_n == IF FLe(area, a_2) THEN coefs.c1.num
               ELSE IF FLe(area, FMul(FI(4), a_2)) THEN coefs.c2.num
               ELSE coefs.c3.num
        G   == IF G_method \in DOMAIN self.G THEN self.G[G_method]
               ELSE FMax(self.G.x, self.G.y)
    IN  Ok(FMul(FMul(FMul(q_z, self.K_d), G), C_n))

RECURSIVE CandCServer_get_load(_, _, _, _, _, _, _, _)

composite_pressure_independent(self, coefs, area, q_z, GC_pi, depth) ==
    Let(CandCServer_get_load(self, coefs.positive_zone.str, area, "max",
                             None, None, Some(Zero), depth + 1),
        LAMBDA p_positive :
            IF p_positive.err # "none" THEN Raise(p_positive.err)
            ELSE Let(CandCServer_get_load(self, coefs.negative_zone.str, area, "max",
                                          None, None, Some(Zero), depth + 1),
                     LAMBDA p_negative :
                        IF p_negative.err # "none" THEN Raise(p_negative.err)
                        ELSE Ok(FSub(p_positive.val, p_negative.val))))

\* The two nested calls of a composite zone: q_z and GC_pi as resolved for the
\* composite, the floor suppressed, G_method at its default.
composite_pressure(self, coefs, area, q_z, GC_pi, depth) ==
    Let(CandCServer_get_load(self, coefs.positive_zone.str, area, "max",
                             q_z, Some(GC_pi), Some(Zero), depth + 1),
        LAMBDA p_positive :
            IF p_positive.err # "none" THEN Raise(p_positive.err)
            ELSE Let(CandCServer_get_load(self, coefs.negative_zone.str, area, "max",
                                          q_z, Some(GC_pi), Some(Zero), depth + 1),
                     LAMBDA p_negative :
                        IF p_negative.err # "none" THEN Raise(p_negative.err)
                        ELSE Ok(FSub(p_positive.val, p_negative.val))))

\* "match coefs.get("kind")": the unfloored pressure of the zone; q_z is None
\* when the server has no pressure to offer.
zone_pressure(self, coefs, area, G_method, q_z, GC_pi, depth) ==
    LET kind == IF "kind" \in DOMAIN coefs THEN coefs.kind.str ELSE "None"
    IN  IF kind = "composite"
        THEN composite_pressure(self, coefs, area, q_z, GC_pi, depth)
        ELSE IF kind \notin {"single_log", "double_log", "constants"}
        THEN Raise("ValueError")
        ELSE IF ~q_z.some THEN Raise("TypeError")
        ELSE IF kind = "single_log"
        THEN single_log_pressure(self, coefs, area, q_z.v, GC_pi)
        ELSE IF kind = "double_log"
        THEN double_log_pressure(self, coefs, area, q_z.v, GC_pi)
        ELSE constants_pressure(self, coefs, area, G_method, q_z.v)

\* The GC_pi that get_load works with.
effective_GC_pi(self, coefs, GC_pi) ==
    IF GC_pi.some THEN FAbs(GC_pi.v)
    ELSE IF "GC_pi" \in DOMAIN coefs THEN coefs.GC_pi.num
    ELSE self.GC_pi

effective_p_min_unless_zero(coefs, p_min) ==
    IF Truthy(p_min) THEN FAbs(p_min.v)
    ELSE unit(IF "p_min" \in DOMAIN coefs THEN coefs.p_min.str ELSE "16 psf")

\* The p_min that get_load works with.
effective_p_min(coefs, p_min) ==
    IF p_min.some THEN FAbs(p_min.v)
    ELSE unit(IF "p_min" \in DOMAIN coefs THEN coefs.p_min.str ELSE "16 psf")

\* The q_z that get_load works with: "not q_z" holds for None and for 0 psf.
effective_q_z(self, coefs, q_z) ==
    IF Truthy(q_z) THEN q_z
    ELSE IF "use_q_p" \in DOMAIN coefs /\ coefs.use_q_p.num.m # 0 THEN self.q_p
    ELSE Some(self.q_h)

floor_and_sign_unsigned(p, p_min) == FMax(FAbs(p), FAbs(p_min))

\* max(abs(p), abs(p_min))*sign(p)
floor_and_sign(p, p_min) == FMul(FMax(FAbs(p), FAbs(p_min)), FSign(p))

\* CandCServer.get_load; depth counts the get_load calls it is nested in.
CandCServer_get_load(self, zone, area, G_method, q_z, GC_pi, p_min, depth) ==
    IF depth > MaxDepth THEN Raise("RecursionError")
    ELSE IF zone \notin DOMAIN self.coefs THEN Raise("KeyError")
    ELSE Let(<<self.coefs[zone], effective_GC_pi(self, self.coefs[zone], GC_pi),
               effective_p_min(self.coefs[zone], p_min),
               effective_q_z(self, self.coefs[zone], q_z)>>,
             LAMBDA r :
                Let(zone_pressure(self, r[1], area, G_method, r[4], r[2], depth),
                    LAMBDA p :
                        IF p.err # "none" THEN Raise(p.err)
                        ELSE Ok(floor_and_sign(p.val, r[3]))))

RECURSIVE get_load_calls(_, _, _, _, _, _)

\* The nested calls counted as if the negative zone were read from the table
\* without a call.
get_load_calls_positive_only(self, zone, area, q_z, GC_pi, depth) ==
    IF depth > MaxDepth \/ zone \notin DOMAIN self.coefs THEN 0
    ELSE IF "kind" \notin DOMAIN self.coefs[zone] THEN 0
    ELSE IF self.coefs[zone].kind.str # "composite" THEN 0
    ELSE 1 + get_load_calls(self, self.coefs[zone].positive_zone.str, area,
                            effective_q_z(self, self.coefs[zone], q_z),
                            Some(effective_GC_pi(self, self.coefs[zone], GC_pi)),
                            depth + 1)

\* Lines 704-717: the number of get_load calls made, directly or not, while
\* get_load(zone, area, q_z=q_z, GC_pi=GC_pi) runs at the given depth.  Only
\* the composite case calls get_load; the call for the negative zone is made
\* when the call for the positive zone has returned.
get_load_calls(self, zone, area, q_z, GC_pi, depth) ==
    IF depth > MaxDepth \/ zone \notin DOMAIN self.coefs THEN 0
    ELSE IF "kind" \notin DOMAIN self.coefs[zone] THEN 0
    ELSE IF self.coefs[zone].kind.str # "composite" THEN 0
    ELSE
    Let(<<self.coefs[zone], effective_q_z(self, self.coefs[zone], q_z),
          Some(effective_GC_pi(self, self.coefs[zone], GC_pi))>>, LAMBDA r :
        1 + get_load_calls(self, r[1].positive_zone.str, area, r[2], r[3],
                           depth + 1)
          + IF CandCServer_get_load(self, r[1].positive_zone.str, area, "max",
                                    r[2], r[3], Some(Zero), depth + 1).err # "none"
            THEN 0
            ELSE 1 + get_load_calls(self, r[1].negative_zone.str, area, r[2],
                                    r[3], depth + 1))

(***************************************************************************)
(* Interpolation calls on bounded inputs                                   *)
(***************************************************************************)
InterpXs == {FI(1), FI(2), FI(4)}

InterpYs == {F(-9, 10), F(-18, 100), F(8, 10)}

InterpC1Leaves == {Num(y) : y \in InterpYs} \cup {Str("q_p")}

InterpPminLeaves == {Str("16 psf"), Str("8 psf")}

InterpRows == [c1 : InterpC1Leaves, p_min : InterpPminLeaves]

InterpLeewardRows == [c1 : {Num(F(-3, 10)), Str("q_p")}, p_min : {Str("16 psf")}]

InterpDicts == [windward : InterpRows, leeward : InterpLeewardRows]

InitIdle ==
    /\ call = [op |-> "none"]
    /\ ret = Raise("none")
    /\ mws = [built |-> FALSE]
    /\ ccs = [built |-> FALSE]

\* One call per behaviour: the inputs are drawn when the call is made.
Idle == call.op = "none"

CallLinterp ==
    /\ Idle
    /\ \E x_1 \in InterpXs, x_2 \in InterpXs, x_3 \in InterpXs,
          y_1 \in InterpYs, y_2 \in InterpYs :
        /\ call' = [op |-> "linterp", x_1 |-> x_1, y_1 |-> y_1,
                    x_2 |-> x_2, y_2 |-> y_2, x_3 |-> x_3]
        /\ ret' = linterp(x_1, y_1, x_2, y_2, x_3)
        /\ UNCHANGED <<mws, ccs>>

CallLinterpDicts ==
    /\ Idle
    /\ \E x_1 \in InterpXs, x_2 \in InterpXs, x_3 \in InterpXs,
       dict_1 \in InterpDicts, dict_2 \in InterpDicts :
        /\ call' = [op |-> "linterp_dicts", x_1 |-> x_1, dict_1 |-> dict_1,
                    x_2 |-> x_2, dict_2 |-> dict_2, x_3 |-> x_3]
        /\ ret' = linterp_dicts(x_1, dict_1, x_2, dict_2, x_3)
        /\ UNCHANGED <<mws, ccs>>

NextInterp == CallLinterp \/ CallLinterpDicts

SpecInterp == InitIdle /\ [][NextInterp]_vars

(***************************************************************************)
(* Claims about interpolation                                              *)
(***************************************************************************)
\* Two records have the same keys and, leaf by leaf, the same kind of leaf.
SameStructure(d1, d2) ==
    /\ DOMAIN d1 = DOMAIN d2
    /\ \A k1 \in DOMAIN d1 :
        /\ DOMAIN d1[k1] = DOMAIN d2[k1]
        /\ \A k2 \in DOMAIN d1[k1] : d1[k1][k2].kind = d2[k1][k2].kind

LeafKeys(d) ==
    {p \in (DOMAIN d) \X {"c1", "c2", "p_min", "q_z"} : p[2] \in DOMAIN d[p[1]]}

InterpCase ==
    /\ call.op = "linterp_dicts"
    /\ call.x_1 # call.x_2
    /\ SameStructure(call.dict_1, call.dict_2)

\* |a - b| * 2^MantBits <= |b| + 4 * |b - c|, in exact arithmetic: a is b up
\* to the rounding of the four operations of linterp.
WithinRounding(a, b, c) ==
    LET lo == IF a.e < b.e THEN (IF a.e < c.e THEN a.e ELSE c.e)
              ELSE (IF b.e < c.e THEN b.e ELSE c.e)
        ex(v) == v.m * Pow2(v.e - lo)
        abs(n) == IF n < 0 THEN -n ELSE n
    IN  abs(ex(a) - ex(b)) * Pow2(MantBits) <= abs(ex(b)) + 4 * abs(ex(b) - ex(c))

\* C1 as stated: with distinct x1, x2 and structurally identical records,
\* linterp_dicts returns R1's numeric leaves at x3 = x1, R2's numeric leaves at
\* x3 = x2, and R1's non-numeric leaves for every x3.
C1_ExactAtBothBounds ==
    InterpCase =>
        /\ ret.err = "none"
        /\ \A p \in LeafKeys(call.dict_1) :
            LET l1 == call.dict_1[p[1]][p[2]]
                l2 == call.dict_2[p[1]][p[2]]
                l3 == ret.val[p[1]][p[2]]
            IN  /\ l1.kind # "num" => l3 = l1
                /\ (l1.kind = "num" /\ call.x_3 = call.x_1) => l3 = l1
                /\ (l1.kind = "num" /\ call.x_3 = call.x_2) => l3 = l2

\* C1 amended: with distinct x1, x2 and structurally identical records,
\* linterp_dicts returns R1's numeric leaves exactly at x3 = x1, R2's numeric
\* leaves up to floating-point rounding at x3 = x2, and R1's non-numeric
\* leaves for every x3.
C1_ExactAtFirstBound ==
    InterpCase =>
        /\ ret.err = "none"
        /\ DOMAIN ret.val = DOMAIN call.dict_1
        /\ \A p \in LeafKeys(call.dict_1) :
            LET l1 == call.dict_1[p[1]][p[2]]
                l2 == call.dict_2[p[1]][p[2]]
                l3 == ret.val[p[1]][p[2]]
            IN  /\ l1.kind # "num" => l3 = l1
                /\ l1.kind = "num" => l3.kind = "num"
                /\ (l1.kind = "num" /\ call.x_3 = call.x_1) => l3 = l1
                /\ (l1.kind = "num" /\ call.x_3 = call.x_2) =>
                        WithinRounding(l3.num, l2.num, l1.num)

\* A call at the second bound whose numeric leaf is not R2's leaf, beside a
\* non-numeric leaf copied from R1.
C1_Witness ==
    /\ InterpCase
    /\ call.x_3 = call.x_2
    /\ ret.err = "none"
    /\ call.dict_1["windward"]["c1"].kind = "num"
    /\ ret.val["windward"]["c1"] # call.dict_2["windward"]["c1"]
    /\ ret.val["windward"]["p_min"] = call.dict_1["windward"]["p_min"]
    /\ call.dict_1["windward"]["p_min"] # call.dict_2["windward"]["p_min"]

\* C2 as stated: interpolation with x1 = x2 fails with a DomainError, whatever
\* the records and x3.
C2_ZeroWidthIsDomainError ==
    (call.op \in {"linterp", "linterp_dicts"} /\ call.x_1 = call.x_2) =>
        ret.err = DomainError

(***************************************************************************)
(* Calls of the velocity-pressure primitives and of the aggregator         *)
(***************************************************************************)
MarkdownOptions == {[return_markdown |-> FALSE], [return_markdown |-> TRUE]}

TopoFeatures == {"ridge", "escarpment", "hill", "valley"}

Exposures == {"B", "C", "D", "E"}

TopoLocations == {"upwind", "downwind", "crest"}

TopoHs == {FI(0), FI(50)}

TopoLhs == {FI(0), FI(100), FI(500)}

TopoXs == {FI(0), FI(-50)}

TopoZs == {FI(0), FI(30)}

KzZs == {FI(-1), F(-1, 100), FI(0), FI(5), FI(15), FI(16), FI(33), FI(100),
         FI(1935), FI(2460), FI(3000), FI(3280), FI(3296), FI(4000)}

KzZgs == {FI(1935), FI(2460), FI(3280)}

KzAlphas == {FI(1), FI(4), F(75, 10), F(98, 10), F(115, 10)}

QzKs == {F(85, 100), FI(1), F(109, 100)}

QzVs == [mag : {FI(0), FI(90), FI(115)}, unit : {"mph", "ft/s"}]

Twice(V) == [mag |-> FMul(FI(2), V.mag), unit |-> V.unit]

CallKzt ==
    /\ Idle
    /\ \E feature \in TopoFeatures, H \in TopoHs, L_h \in TopoLhs, x \in TopoXs,
          z \in TopoZs, exposure \in Exposures, location \in TopoLocations :
        /\ call' = [op |-> "calc_K_zt", feature |-> feature, H |-> H, L_h |-> L_h,
                    x |-> x, z |-> z, exposure |-> exposure, location |-> location]
        /\ ret' = calc_K_zt(feature, H, L_h, x, z, exposure, location,
                            [return_markdown |-> FALSE])
        /\ UNCHANGED <<mws, ccs>>

CallKz ==
    /\ Idle
    /\ \E z \in KzZs, z_g \in KzZgs, alpha \in KzAlphas, mo \in MarkdownOptions :
        /\ call' = [op |-> "calc_K_z", z |-> z, z_g |-> z_g, alpha |-> alpha,
                    markdown_options |-> mo]
        /\ ret' = calc_K_z(z, z_g, alpha, "z", mo)
        /\ UNCHANGED <<mws, ccs>>

CallQz ==
    /\ Idle
    /\ \E K_z \in QzKs, K_zt \in QzKs, K_e \in QzKs, V \in QzVs,
          mo \in MarkdownOptions :
        /\ call' = [op |-> "calc_q_z", K_z |-> K_z, K_zt |-> K_zt, K_e |-> K_e,
                    V |-> V, markdown_options |-> mo]
        /\ ret' = calc_q_z(K_z, K_zt, K_e, V, "z", mo)
        /\ UNCHANGED <<mws, ccs>>

CallWindServerInputs ==
    /\ Idle
    /\ \E V \in {[mag |-> FI(115), unit |-> "mph"]}, exposure \in Exposures,
          L_x \in {FI(60), FI(200)}, L_y \in {FI(40)}, h \in {FI(15), FI(30), FI(4000)},
          h_p \in {None, Some(FI(18))}, mo \in MarkdownOptions :
        /\ call' = [op |-> "calc_wind_server_inputs", V |-> V, exposure |-> exposure,
                    building_type |-> "low-rise", L_x |-> L_x, L_y |-> L_y, h |-> h,
                    roof_angle |-> FI(0), h_p |-> h_p, markdown_options |-> mo]
        /\ ret' = calc_wind_server_inputs(V, exposure, "low-rise", L_x, L_y, h,
                                          FI(0), FI(1), FI(0), h_p, mo)
        /\ UNCHANGED <<mws, ccs>>

NextPrim == CallKzt \/ CallKz \/ CallQz \/ CallWindServerInputs

SpecPrim == InitIdle /\ [][NextPrim]_vars

(***************************************************************************)
(* Claims about the primitives and the aggregator                          *)
(***************************************************************************)
\* The low-rise scenario: L_x = 60 ft, L_y = 40 ft, h = 15 ft, exposure C,
\* V = 115 mph, roof_angle = 0.
LowRiseScenario ==
    /\ call.op = "calc_wind_server_inputs"
    /\ call.V = [mag |-> FI(115), unit |-> "mph"]
    /\ call.exposure = "C"
    /\ call.building_type = "low-rise"
    /\ call.L_x = FI(60) /\ call.L_y = FI(40) /\ call.h = FI(15)
    /\ call.roof_angle = FI(0)

\* C3 as stated: in the low-rise scenario calc_wind_server_inputs completes
\* and returns positive q_h, G_x, G_y and a = 3 ft.
C3_LowRiseScenarioInputs ==
    LowRiseScenario =>
        /\ ret.err = "none"
        /\ ret.val.val.q_h.m > 0
        /\ ret.val.val.G_x.m > 0
        /\ ret.val.val.G_y.m > 0
        /\ ret.val.val.a = FI(3)

KzInDomain(z) == FLe(FI(0), z) /\ FLe(z, FI(3280))

\* C4: calc_K_z fails with a DomainError for every z < 0 ft and every
\* z > 3280 ft, and returns a value for every z in [0 ft, 3280 ft].
C4_KzElevationDomain ==
    call.op = "calc_K_z" =>
        /\ ~KzInDomain(call.z) => ret.err = DomainError
        /\ KzInDomain(call.z) => ret.err = "none"

\* calc_K_z has rejected z = 4000 ft.
C4_Witness ==
    /\ call.op = "calc_K_z"
    /\ call.z = FI(4000)
    /\ ret.err = "ValueError"

KzAt(z) == calc_K_z(z, call.z_g, call.alpha, "z", call.markdown_options).val.val

\* C5: for fixed z_g and alpha > 0, calc_K_z is non-decreasing in z over its
\* valid domain, constant for z <= 15 ft and constant for z >= z_g.
C5_KzMonotoneAndClamped ==
    (call.op = "calc_K_z" /\ ret.err = "none") =>
        /\ \A z2 \in {z \in KzZs : KzInDomain(z)} :
            /\ FLe(call.z, z2) => FLe(ret.val.val, KzAt(z2))
            /\ (FLe(call.z_g, call.z) /\ FLe(call.z_g, z2)) => ret.val.val = KzAt(z2)
            /\ (FLe(call.z, FI(15)) /\ FLe(z2, FI(15))) => ret.val.val = KzAt(z2)
        /\ call.z = FI(5) => ret.val.val = KzAt(FI(15))

\* calc_K_z at 5 ft: the value at 15 ft, below the value at 100 ft.
C5_Witness ==
    /\ call.op = "calc_K_z"
    /\ call.z = FI(5)
    /\ ret.err = "none"
    /\ ret.val.val = KzAt(FI(15))
    /\ FLt(ret.val.val, KzAt(FI(100)))

\* C6: calc_q_z(K_z, K_zt, K_e, 2V) = 4 * calc_q_z(K_z, K_zt, K_e, V).
C6_QzQuadraticInV ==
    (call.op = "calc_q_z" /\ ret.err = "none") =>
        calc_q_z(call.K_z, call.K_zt, call.K_e, Twice(call.V), "z",
                 call.markdown_options).val.val
            = FMul(FI(4), ret.val.val)

\* calc_q_z has returned a positive pressure for a speed given in ft/s.
C6_Witness ==
    /\ call.op = "calc_q_z"
    /\ call.V = [mag |-> FI(115), unit |-> "ft/s"]
    /\ ret.err = "none"
    /\ ret.val.val.m > 0

KztFlatCase ==
    /\ call.op = "calc_K_zt"
    /\ call.H = FI(0)
    /\ call.feature \in {"ridge", "escarpment", "hill"}
    /\ call.exposure \in {"B", "C", "D"}
    /\ call.location \in {"upwind", "downwind"}

\* C7 as stated: calc_K_zt returns exactly 1 whenever H = 0, for every
\* supported feature, exposure and location and every L_h, x and z.
C7_KztOneWhenFlat ==
    KztFlatCase => (ret.err = "none" /\ ret.val.val = FI(1))

\* C7 amended: calc_K_zt returns exactly 1 whenever H = 0 and L_h > 0, for
\* every supported feature, exposure and location and every x and z.
C7_KztOneWhenFlatAndLhPositive ==
    (KztFlatCase /\ call.L_h.m > 0) => (ret.err = "none" /\ ret.val.val = FI(1))

\* calc_K_zt has returned 1 for H = 0 off the crest and above the ground.
C7_Witness ==
    /\ KztFlatCase
    /\ call.L_h = FI(100) /\ call.x = FI(-50) /\ call.z = FI(30)
    /\ ret.err = "none"
    /\ ret.val.val = FI(1)

(***************************************************************************)
(* MainWindServer: construction, then any number of get_load queries       *)
(***************************************************************************)
BuildingTypes == {"low-rise", "mid-rise", "open", "tower"}

MainRoofAngles == {FI(0), FI(10), FI(17), FI(85)}

RidgeAxes == {"None", "x"}

\* <<L_x, L_y, h>>
Geometries == {<<FI(60), FI(40), FI(15)>>, <<FI(200), FI(40), FI(30)>>}

ParapetPressures == {None, Some(FI(10))}

MainKw(t, ang, ridge, g, q_p) ==
    [building_type |-> t, roof_angle |-> ang, ridge_axis |-> ridge,
     L_x |-> g[1], L_y |-> g[2], h |-> g[3],
     G_x |-> F(85, 100), G_y |-> F(88, 100), GC_pi |-> Some(F(-18, 100)),
     K_d |-> F(85, 100), K_zt |-> FI(1), K_e |-> FI(1),
     V |-> [mag |-> FI(115), unit |-> "mph"],
     z_g |-> FI(2460), alpha |-> F(98, 10), q_h |-> FI(20), q_p |-> q_p]

\* Every combination for a low-rise building, a few for the other types, a
\* roof whose tabulated coefficient is zero, and GC_pi given nowhere.
MainKwargs ==
    {MainKw("low-rise", ang, ridge, g, q_p) :
        ang \in MainRoofAngles, ridge \in RidgeAxes, g \in Geometries,
        q_p \in ParapetPressures}
    \cup
    {MainKw(t, ang, ridge, <<FI(60), FI(40), FI(15)>>, Some(FI(10))) :
        t \in BuildingTypes \ {"low-rise"}, ang \in {FI(0), FI(17)},
        ridge \in RidgeAxes}
    \cup
    {MainKw("low-rise", FI(15), "x", <<FI(40), FI(60), FI(15)>>, None)}
    \cup
    {[MainKw(t, FI(0), "x", <<FI(60), FI(40), FI(15)>>, None) EXCEPT !.GC_pi = None] :
        t \in {"low-rise", "open", "tower"}}

\* The catalog files the server may find.
MainWindCatalogs == {MainWindCoefs(variant) : variant \in CatalogVariants}

MainAxes == {"x", "y"}

MainElements == {"wall", "roof", "parapet"}

MainLocations ==
    {Str("windward"), Str("leeward"), Str("side"),
     Num(FI(5)), Num(FI(15)), Num(FI(30)), Num(FI(4000))}

ConstructMainWindServer ==
    /\ Idle
    /\ \E kw \in MainKwargs, catalog \in MainWindCatalogs :
        \E r \in {MainWindServer_init(kw, catalog)} :
            /\ call' = [op |-> "MainWindServer", kw |-> kw]
            /\ ret' = IF r.err = "none" THEN Ok(Zero) ELSE Raise(r.err)
            /\ mws' = IF r.err = "none" THEN r.val ELSE mws
            /\ UNCHANGED ccs

MainGetLoad ==
    /\ mws.built
    /\ \E axis \in MainAxes, element \in MainElements, location \in MainLocations :
        /\ call' = [op |-> "MainWindServer.get_load", axis |-> axis,
                    element |-> element, location |-> location]
        /\ ret' = MainWindServer_get_load(mws, axis, element, location)
        /\ UNCHANGED <<mws, ccs>>

NextMain == ConstructMainWindServer \/ MainGetLoad

SpecMain == InitIdle /\ [][NextMain]_vars

(***************************************************************************)
(* Claims about MainWindServer                                             *)
(***************************************************************************)
\* C8: constructing a MainWindServer for a low-rise or mid-rise building with
\* ridge_axis unset and roof_angle >= 10 fails with a ConfigurationError and
\* yields no server object.
C8_RidgeAxisRequired ==
    (/\ call.op = "MainWindServer"
     /\ call.kw.building_type \in {"low-rise", "mid-rise"}
     /\ call.kw.ridge_axis = "None"
     /\ FLe(FI(10), call.kw.roof_angle)) =>
        (ret.err = ConfigurationError /\ ~mws.built)

\* A low-rise construction at roof_angle = 17 without ridge_axis has failed.
C8_Witness ==
    /\ call.op = "MainWindServer"
    /\ call.kw.building_type = "low-rise"
    /\ call.kw.ridge_axis = "None"
    /\ call.kw.roof_angle = FI(17)
    /\ ret.err = "ValueError"
    /\ ~mws.built

ParapetQuery ==
    /\ call.op = "MainWindServer.get_load"
    /\ call.element = "parapet"
    /\ ret.err = "none"

ParapetRow == mws.coefs[call.axis]["parapet"][call.location.str]

ParapetQ == select_q_z(mws, ParapetRow, call.location).val.v

\* C9 as stated: each of the two pressures returned for a parapet equals
\* exactly q * K_d * C_p.
C9_ParapetPressureExact ==
    ParapetQuery =>
        /\ ret.val[1] = FMul(FMul(ParapetQ, mws.K_d), ParapetRow.c1.num)
        /\ ret.val[2] = FMul(FMul(ParapetQ, mws.K_d), ParapetRow.c2.num)

\* C9 amended: each of the two pressures returned for a parapet is
\* q * K_d * C_p, with no gust-effect factor and no internal-pressure term,
\* magnitude-floored at the entry's p_min and re-signed; it equals
\* q * K_d * C_p exactly whenever |q * K_d * C_p| >= p_min.
C9_ParapetPressureFloored ==
    ParapetQuery =>
        \A i \in {1, 2} :
            LET C_p == IF i = 1 THEN ParapetRow.c1.num ELSE ParapetRow.c2.num
                p == FMul(FMul(ParapetQ, mws.K_d), C_p)
                p_min == unit(ParapetRow.p_min.str)
            IN  /\ ret.val[i] = FMul(FMax(FAbs(p), p_min), FSign(p))
                /\ FLe(p_min, FAbs(p)) => ret.val[i] = p

\* A leeward parapet query answered with q_p * K_d * C_p, above the floor.
C9_Witness ==
    /\ ParapetQuery
    /\ call.location = Str("leeward")
    /\ mws.q_p = Some(FI(10))
    /\ ret.val[1] = FMul(FMul(FI(10), mws.K_d), ParapetRow.c1.num)
    /\ FLt(unit(ParapetRow.p_min.str), FAbs(ret.val[1]))
    /\ FLt(ret.val[1], FI(0))

(***************************************************************************)
(* CandCServer: construction, then any number of get_load queries          *)
(***************************************************************************)
\* <<h_c, h_e>>
Canopies ==
    {<<None, None>>, <<Some(FI(4)), Some(FI(10))>>, <<Some(FI(8)), Some(FI(10))>>,
     <<Some(FI(10)), Some(FI(10))>>, <<Some(FI(12)), Some(FI(10))>>}

\* <<q_h, q_p>>
CandCPressures == {<<FI(20), Some(FI(25))>>, <<FI(0), Some(FI(25))>>, <<FI(20), None>>}

CandCKw(t, roof_type, ang, canopy, q, GC_pi) ==
    [building_type |-> t, roof_type |-> roof_type, roof_angle |-> ang, a |-> FI(3),
     G_x |-> F(85, 100), G_y |-> F(88, 100), GC_pi |-> GC_pi,
     h_c |-> canopy[1], h_e |-> canopy[2], K_d |-> F(85, 100),
     q_h |-> q[1], q_p |-> q[2]]

\* The roof angles at the band limits of a low-rise roof and the nearest
\* floats above them.
BandAngles ==
    {FI(7), F(29, 4), FI(20), F(81, 4), FI(27), F(109, 4), FI(45), F(181, 4)}

\* Every pressure for a low-rise gable roof.
CandCPressureKwargs ==
    {CandCKw("low-rise", "gable", ang, <<None, None>>, q, Some(F(-18, 100))) :
        ang \in {Some(FI(5)), Some(FI(50))}, q \in CandCPressures}

\* A few of the other inputs.
CandCOtherKwargs ==
    {CandCKw("low-rise", "gable", Some(FI(5)), canopy, <<FI(20), Some(FI(25))>>,
             Some(F(-18, 100))) : canopy \in Canopies}
    \cup
    {CandCKw(t[1], t[2], ang, <<None, None>>, <<FI(20), Some(FI(25))>>,
             Some(F(-18, 100))) :
        t \in {<<"low-rise", "hip">>, <<"open", "monoslope_clear">>,
               <<"open", "gable">>, <<"mid-rise", "gable">>, <<"tower", "gable">>},
        ang \in {Some(FI(5)), Some(FI(25)), Some(FI(50)), None}}
    \cup
    {CandCKw(t, "gable", Some(FI(5)), <<None, None>>, <<FI(20), Some(FI(25))>>,
             None) : t \in {"low-rise", "mid-rise", "tower"}}
    \cup
    {CandCKw("low-rise", "gable", Some(ang), <<None, None>>,
             <<FI(20), Some(FI(25))>>, Some(F(-18, 100))) : ang \in BandAngles}
    \cup
    {CandCKw("low-rise", "hip", Some(ang), <<None, None>>,
             <<FI(20), Some(FI(25))>>, Some(F(-18, 100))) : ang \in {FI(20), FI(45)}}

CandCKwargs == CandCPressureKwargs \cup CandCOtherKwargs

\* The catalog files the server may find.
CandCCatalogs == {CandCCoefs(variant) : variant \in CandCVariants}

\* The constructions: every catalog with the pressures, the catalogs without
\* and with mid-rise buildings with the other inputs.
CandCConstructions ==
    (CandCPressureKwargs \X CandCCatalogs)
    \cup (CandCOtherKwargs \X {CandCCoefs(variant) : variant \in CandCTypeVariants})

CandCZones == {"4+", "4-", "1-", "2-", "parapet", "canopy", "louver", "3+", "5"}

CandCAreas == {FI(5), FI(20), FI(2000)}

CandCQuery(zone, area, G_method, q_z, GC_pi, p_min) ==
    [op |-> "CandCServer.get_load", zone |-> zone, area |-> area,
     G_method |-> G_method, q_z |-> q_z, GC_pi |-> GC_pi, p_min |-> p_min]

\* Every zone and area with the optional arguments left out, a few with them.
CandCQueries ==
    {CandCQuery(zone, area, "max", None, None, None) :
        zone \in CandCZones, area \in CandCAreas}
    \cup
    {CandCQuery("3+", area, "x", None, None, None) :
        area \in CandCAreas \cup {FI(9), FI(36)}}
    \cup
    {CandCQuery("3+", FI(20), G_method, None, None, None) : G_method \in {"y", "z"}}
    \cup
    {CandCQuery(zone, FI(20), "max", Some(FI(30)), Some(F(-3, 10)), p_min) :
        zone \in {"4+", "parapet"}, p_min \in {None, Some(FI(-5))}}
    \cup
    {CandCQuery(zone, FI(20), "max", Some(FI(2)), None, p_min) :
        zone \in {"4+", "parapet"}, p_min \in {Some(Zero), Some(FI(5))}}

ConstructCandCServer ==
    /\ Idle
    /\ \E c \in CandCConstructions :
        \E r \in {CandCServer_init(c[1], c[2])} :
            /\ call' = [op |-> "CandCServer", kw |-> c[1]]
            /\ ret' = IF r.err = "none" THEN Ok(Zero) ELSE Raise(r.err)
            /\ ccs' = IF r.err = "none" THEN r.val ELSE ccs
            /\ UNCHANGED mws

CandCGetLoad_keeping_GC_pi ==
    /\ ccs.built
    /\ \E query \in CandCQueries :
        /\ call' = query
        /\ ret' = CandCServer_get_load(ccs, query.zone, query.area, query.G_method,
                                       query.q_z, query.GC_pi, query.p_min, 0)
        /\ ccs' = [ccs EXCEPT !.GC_pi = effective_GC_pi(ccs, [kind |-> Str("None")],
                                                         query.GC_pi)]
        /\ UNCHANGED mws

CandCGetLoad ==
    /\ ccs.built
    /\ \E query \in CandCQueries :
        /\ call' = query
        /\ ret' = CandCServer_get_load(ccs, query.zone, query.area, query.G_method,
                                       query.q_z, query.GC_pi, query.p_min, 0)
        /\ UNCHANGED <<mws, ccs>>

NextCandC == ConstructCandCServer \/ CandCGetLoad

SpecCandC == InitIdle /\ [][NextCandC]_vars

(***************************************************************************)
(* Claims about CandCServer                                                *)
(***************************************************************************)
\* A get_load query of a composite zone of the server's table.
CompositeQuery ==
    /\ call.op = "CandCServer.get_load"
    /\ call.zone \in DOMAIN ccs.coefs
    /\ ccs.coefs[call.zone].kind = Str("composite")

\* What get_load(zone, area, q_z=q_z, GC_pi=GC_pi, p_min=0) returns when the
\* query under way calls it.
SubResult(zone, q_z, GC_pi) ==
    CandCServer_get_load(ccs, zone.str, call.area, "max", q_z, GC_pi, Some(Zero), 1)

\* The difference of the two sub-results, floored at the p_min of the query
\* and re-signed; the exception of the first sub-call that fails.
FlooredDifference(p_positive, p_negative) ==
    IF p_positive.err # "none" THEN Raise(p_positive.err)
    ELSE IF p_negative.err # "none" THEN Raise(p_negative.err)
    ELSE Ok(floor_and_sign(FSub(p_positive.val, p_negative.val),
                           effective_p_min(ccs.coefs[call.zone], call.p_min)))

\* C10 as stated: for every composite zone Z and every area, get_load(Z, area)
\* is the floored and re-signed value of get_load(positive_zone, area, p_min=0)
\* - get_load(negative_zone, area, p_min=0), the two sub-results being what
\* independent get_load calls return, each resolving its own velocity pressure
\* and internal-pressure coefficient from its own zone record.
C10_CompositeOfIndependentCalls ==
    CompositeQuery =>
        ret = FlooredDifference(
                SubResult(ccs.coefs[call.zone].positive_zone, None, None),
                SubResult(ccs.coefs[call.zone].negative_zone, None, None))

\* C10 amended: for every composite zone Z and every area, get_load(Z, area)
\* is the floored and re-signed value of
\* get_load(positive_zone, area, q_z=q, GC_pi=g, p_min=0)
\* - get_load(negative_zone, area, q_z=q, GC_pi=g, p_min=0), where q and g are
\* the velocity pressure and the internal-pressure coefficient resolved for Z
\* itself: from the arguments of the query, else from Z's record, else from
\* the server.
C10_CompositeOfForwardedCalls ==
    CompositeQuery =>
        LET coefs == ccs.coefs[call.zone]
            q     == effective_q_z(ccs, coefs, call.q_z)
            g     == Some(effective_GC_pi(ccs, coefs, call.GC_pi))
        IN  ret = FlooredDifference(SubResult(coefs.positive_zone, q, g),
                                    SubResult(coefs.negative_zone, q, g))

\* A composite zone flagged use_q_p, queried without optional arguments, has
\* returned a pressure above the floor that is not the difference of the
\* independent sub-results.
C10_Witness ==
    /\ CompositeQuery
    /\ "use_q_p" \in DOMAIN ccs.coefs[call.zone]
    /\ call.q_z = None /\ call.GC_pi = None /\ call.p_min = None
    /\ ccs.q_h = FI(20) /\ ccs.q_p = Some(FI(25))
    /\ ret.err = "none"
    /\ FLt(FI(16), ret.val)
    /\ ret # FlooredDifference(
                SubResult(ccs.coefs[call.zone].positive_zone, None, None),
                SubResult(ccs.coefs[call.zone].negative_zone, None, None))

\* A low-rise construction with a roof angle and an internal-pressure
\* coefficient.
LowRiseConstruction ==
    /\ call.op = "CandCServer"
    /\ call.kw.building_type = "low-rise"
    /\ call.kw.roof_angle.some
    /\ call.kw.GC_pi.some

\* The band of a roof angle of at most 45 degrees.
RoofBand(angle) ==
    IF ~FLt(FI(7), angle) THEN "flat"
    ELSE IF ~FLt(FI(20), angle) THEN "low_" \o call.kw.roof_type
    ELSE IF ~FLt(FI(27), angle) THEN "mid_" \o call.kw.roof_type
    ELSE "high_" \o call.kw.roof_type

\* The server holds every zone of the catalog's table.
HoldsTable(key) ==
    LET table == CandCLowRise(CHOOSE variant \in CandCVariants : TRUE)[key]
    IN  \A zone \in DOMAIN table :
            zone \in DOMAIN ccs.coefs /\ ccs.coefs[zone] = table[zone]

\* C11: a low-rise CandCServer construction takes the roof table flat for
\* angle <= 7, low_<roof_type> for 7 < angle <= 20, mid_<roof_type> for
\* 20 < angle <= 27, high_<roof_type> for 27 < angle <= 45, and fails with a
\* DomainError for every angle above 45.
C11_RoofBandByAngle ==
    LowRiseConstruction =>
        LET angle == call.kw.roof_angle.v
        IN  /\ FLt(FI(45), angle) => (ret.err = DomainError /\ ~ccs.built)
            /\ ~FLt(FI(45), angle) =>
                /\ ret.err \in {"none", DomainError}
                /\ ret.err = DomainError => Truthy(call.kw.h_c)
                /\ ret.err = "none" => HoldsTable(RoofBand(angle))

\* A construction at 45 degrees has taken high_gable, not mid_gable.
C11_Witness ==
    /\ LowRiseConstruction
    /\ call.kw.roof_type = "gable"
    /\ call.kw.roof_angle.v = FI(45)
    /\ ret.err = "none"
    /\ ccs.coefs["1-"] = RoofTable(-1600)["1-"]
    /\ ccs.coefs["1-"] # RoofTable(-1900)["1-"]

(***************************************************************************)
(* Both servers                                                            *)
(***************************************************************************)
NextServers ==
    ConstructMainWindServer \/ MainGetLoad \/ ConstructCandCServer \/ CandCGetLoad

SpecServers == InitIdle /\ [][NextServers]_vars

MainAnswer == call.op = "MainWindServer.get_load" /\ ret.err = "none"

CandCAnswer == call.op = "CandCServer.get_load" /\ ret.err = "none"

\* The catalog entry a MainWindServer query is answered from.
MainRow ==
    mws.coefs[call.axis][call.element]
             [resolve_location(mws, call.element, call.location).str]

\* The two unfloored pressures of a MainWindServer query.
MainUnfloored ==
    LET q_z == select_q_z(mws, MainRow, call.location).val.v
    IN  <<unfloored_pressure(mws, call.axis, call.element, q_z, MainRow.c1.num),
          unfloored_pressure(mws, call.axis, call.element, q_z, MainRow.c2.num)>>

\* The unfloored pressure of a CandCServer query.
CandCUnfloored ==
    LET coefs == ccs.coefs[call.zone]
    IN  zone_pressure(ccs, coefs, call.area, call.G_method,
                      effective_q_z(ccs, coefs, call.q_z),
                      effective_GC_pi(ccs, coefs, call.GC_pi), 0).val

\* The returned and the unfloored pressures of the query with its floor.
Answers ==
    IF MainAnswer
    THEN {<<ret.val[i], MainUnfloored[i], unit(MainRow.p_min.str)>> : i \in {1, 2}}
    ELSE IF CandCAnswer
    THEN {<<ret.val, CandCUnfloored,
            effective_p_min(ccs.coefs[call.zone], call.p_min)>>}
    ELSE {}

\* C12 as stated: every pressure returned by get_load of either server has
\* magnitude at least the effective p_min of the query and the algebraic sign
\* of the unfloored pressure, a zero unfloored pressure included.
C12_FlooredAndSigned ==
    \A a \in Answers : FLe(a[3], FAbs(a[1])) /\ FSign(a[1]) = FSign(a[2])

\* C12 amended: every pressure returned by get_load of either server has the
\* algebraic sign of the unfloored pressure and, when the unfloored pressure
\* is not zero, magnitude at least the effective p_min of the query; when the
\* unfloored pressure is zero the returned pressure is zero, whatever p_min.
C12_FlooredUnlessZero ==
    \A a \in Answers :
        /\ FSign(a[1]) = FSign(a[2])
        /\ a[2].m # 0 => FLe(a[3], FAbs(a[1])) /\ FLe(FAbs(a[2]), FAbs(a[1]))
        /\ a[2].m = 0 => a[1].m = 0

\* A MainWindServer query answered from a zero coefficient: the second
\* pressure is zero under a floor of 8 psf, the first is floored.
C12_Witness ==
    /\ MainAnswer
    /\ MainRow.c2.num = Zero
    /\ MainRow.c1.num # Zero
    /\ unit(MainRow.p_min.str) = FI(8)
    /\ ret.val[2] = Zero
    /\ FLe(FI(8), FAbs(ret.val[1]))

\* p floored in magnitude at floor and re-signed.
FlooredAt(p, floor) ==
    IF p.m = 0 THEN Zero
    ELSE IF FLt(FAbs(p), floor) THEN (IF p.m < 0 THEN FNeg(floor) ELSE floor)
    ELSE p

\* C13: in CandCServer.get_load the effective minimum-pressure floor is the
\* explicit p_min argument (by magnitude) whenever one is passed, 0 psf
\* included, otherwise the p_min of the zone record when the record has one,
\* otherwise 16 psf.
C13_FloorPrecedence ==
    CandCAnswer =>
        LET coefs == ccs.coefs[call.zone]
            floor == IF call.p_min.some THEN FAbs(call.p_min.v)
                     ELSE IF "p_min" \in DOMAIN coefs THEN unit(coefs.p_min.str)
                     ELSE FI(16)
        IN  ret.val = FlooredAt(CandCUnfloored, floor)

\* A zone whose record asks for 10 psf, queried with p_min = 0 psf, has
\* returned a pressure below 10 psf.
C13_Witness ==
    /\ CandCAnswer
    /\ call.zone = "4+"
    /\ "p_min" \in DOMAIN ccs.coefs["4+"]
    /\ unit(ccs.coefs["4+"].p_min.str) = FI(10)
    /\ call.p_min = Some(Zero)
    /\ FLt(Zero, ret.val)
    /\ FLt(ret.val, FI(5))

\* A construction of either server has returned or raised.
Construction == call.op \in {"MainWindServer", "CandCServer"}

\* C14 as stated: constructing a MainWindServer or a CandCServer with a
\* building-type string outside {low-rise, mid-rise, open} fails with a
\* ConfigurationError, for every such string (the other inputs being given).
C14_UnsupportedTypeIsConfigurationError ==
    (/\ Construction
     /\ call.kw.building_type \notin {"low-rise", "mid-rise", "open"}
     /\ call.kw.GC_pi.some) =>
        ret.err = ConfigurationError

\* C15 as stated: constructing a MainWindServer with building_type "open" and
\* constructing a CandCServer with building_type "mid-rise" each fail with a
\* NotSupportedError, whatever the other inputs are.
C15_UnimplementedTypeIsNotSupportedError ==
    (\/ call.op = "MainWindServer" /\ call.kw.building_type = "open"
     \/ call.op = "CandCServer" /\ call.kw.building_type = "mid-rise") =>
        ret.err = NotSupportedError

\* A required field that neither the file nor the arguments give.
MissingField ==
    \/ ~call.kw.GC_pi.some
    \/ call.op = "CandCServer" /\ ~call.kw.roof_angle.some

\* C16 as stated: constructing either server with a required field absent
\* fails with a ConfigurationError that names the key; the field is never
\* stored as a null and dereferenced.
C16_MissingFieldIsConfigurationError ==
    (Construction /\ MissingField) => ret.err = ConfigurationError

\* C17: once a server is constructed no step changes its coefficient table
\* or its cached scalars, and every get_load call, failed or not, composite or
\* not, returns what the query returns on the server as constructed.
C17_GetLoadIsPureRead ==
    [][/\ mws.built => mws' = mws
       /\ ccs.built => ccs' = ccs
       /\ call'.op = "MainWindServer.get_load" =>
            ret' = MainWindServer_get_load(mws', call'.axis, call'.element,
                                           call'.location)
       /\ call'.op = "CandCServer.get_load" =>
            ret' = CandCServer_get_load(ccs', call'.zone, call'.area,
                                        call'.G_method, call'.q_z, call'.GC_pi,
                                        call'.p_min, 0)]_vars

\* A composite query has failed in its nested calls on a server that still
\* holds the zone.
C17_Witness ==
    /\ call.op = "CandCServer.get_load"
    /\ call.zone = "parapet"
    /\ ret.err = "RecursionError"
    /\ ccs.built
    /\ ccs.coefs["parapet"].kind = Str("composite")

\* C18 as stated: a lookup whose key is absent from the catalog fails with a
\* LookupError: an unsupported feature, exposure or location in calc_K_zt, an
\* exposure absent from the terrain table read by calc_wind_server_inputs,
\* and an unknown zone in CandCServer.get_load.
C18_AbsentKeyIsLookupError ==
    /\ (/\ call.op = "calc_K_zt"
        /\ \/ call.feature \notin DOMAIN TopoCoefs
           \/ call.exposure \notin {"B", "C", "D"}
           \/ call.location \notin {"upwind", "downwind"}) =>
            ret.err = LookupError
    /\ (/\ call.op = "calc_wind_server_inputs"
        /\ call.exposure \notin DOMAIN TerrainTable) =>
            ret.err = LookupError
    /\ (/\ call.op = "CandCServer.get_load"
        /\ call.zone \notin DOMAIN ccs.coefs) =>
            ret.err = LookupError

\* C19 as stated: a primitive called with the derivation trace requested
\* returns the pair (trace, result), and called without it the result alone;
\* the trace-requesting calls inside calc_wind_server_inputs each receive a
\* pair, so that unpacking them does not fail.
C19_TraceRequestedReturnsPair ==
    /\ (/\ call.op \in {"calc_K_zt", "calc_K_z", "calc_q_z", "calc_wind_server_inputs"}
        /\ "markdown_options" \in DOMAIN call
        /\ ret.err = "none") =>
            ret.val.tuple = call.markdown_options.return_markdown
    /\ call.op = "calc_wind_server_inputs" => ret.err # "TypeError"

(***************************************************************************)
(* aisc.chapter_F, section F2: lateral-torsional buckling of a doubly       *)
(* symmetric compact I-shape.  Lengths are in inches, stresses in ksi and   *)
(* moments in kip-inches.  The equations and the condition of each regime   *)
(* are those the expected derivations of tests/aisc/test_chapter_F.py       *)
(* print.                                                                  *)
(***************************************************************************)
WideFlange(r_y, r_ts, J, S_x, h_o, Z_x, F_y) ==
    [r_y |-> r_y, r_ts |-> r_ts, J |-> J, c |-> FI(1), S_x |-> S_x,
     h_o |-> h_o, Z_x |-> Z_x, E |-> FI(29000), F_y |-> F_y]

\* M_p = F_y * Z_x
sec_F2_1(shape) == FMul(shape.F_y, shape.Z_x)

\* M_ltb = C_b * (M_p - (M_p - 0.7 * F_y * S_x) * ((L_b - L_p) / (L_r - L_p)))
eq_F2_2(F_y, S_x, L_b, L_p, L_r, M_p, C_b) ==
    FMul(C_b,
         FSub(M_p,
              FMul(FSub(M_p, FMul(FMul(F(7, 10), F_y), S_x)),
                   FDiv(FSub(L_b, L_p), FSub(L_r, L_p)))))

\* M_ltb = F_cr * S_x
eq_F2_3(F_cr, S_x) == FMul(F_cr, S_x)

\* J * c / (S_x * h_o)
TorsionRatio(shape) ==
    FDiv(FMul(shape.J, shape.c), FMul(shape.S_x, shape.h_o))

PiSquared == FMul(F(355, 113), F(355, 113))

\* F_cr = C_b * pi^2 * E / (L_b / r_ts)^2
\*        * sqrt(1 + 0.078 * (J * c / (S_x * h_o)) * (L_b / r_ts)^2)
eq_F2_4(shape, L_b, C_b) ==
    Let(FMul(FDiv(L_b, shape.r_ts), FDiv(L_b, shape.r_ts)),
        LAMBDA slenderness :
            FMul(FDiv(FMul(FMul(C_b, PiSquared), shape.E), slenderness),
                 FSqrt(FAdd(FI(1),
                            FMul(FMul(F(78, 1000), TorsionRatio(shape)),
                                 slenderness)))))

\* L_p = 1.76 * r_y * sqrt(E / F_y)
eq_F2_5(shape) ==
    FMul(FMul(F(176, 100), shape.r_y), FSqrt(FDiv(shape.E, shape.F_y)))

\* L_r = 1.95 * r_ts * E / (0.7 * F_y)
\*       * sqrt(J * c / (S_x * h_o)
\*              + sqrt((J * c / (S_x * h_o))^2 + 6.76 * (0.7 * F_y / E)^2))
eq_F2_6(shape) ==
    Let(<<TorsionRatio(shape), FDiv(FMul(F(7, 10), shape.F_y), shape.E)>>,
        LAMBDA t :
            FMul(FMul(FMul(F(195, 100), shape.r_ts),
                      FDiv(shape.E, FMul(F(7, 10), shape.F_y))),
                 FSqrt(FAdd(t[1],
                            FSqrt(FAdd(FMul(t[1], t[1]),
                                       FMul(F(676, 100),
                                            FMul(t[2], t[2]))))))))

\* The derivation named by the regime it was filled for, with the moment, or
\* the moment alone.
F2_2_result(return_string, regime, M_ltb) ==
    IF return_string THEN Pair(regime, M_ltb) ELSE Bare(M_ltb)

\* sec_F2_2 with both limits exclusive: a length equal to a limit falls in
\* the regime above it.
sec_F2_2_exclusive(shape, L_b, M_p, C_b, return_string) ==
    Let(eq_F2_5(shape), LAMBDA L_p :
        IF FLt(L_b, L_p)
        THEN F2_2_result(return_string, "plastic", M_p)
        ELSE Let(eq_F2_6(shape), LAMBDA L_r :
            IF FLt(L_b, L_r)
            THEN F2_2_result(return_string, "inelastic",
                             eq_F2_2(shape.F_y, shape.S_x, L_b, L_p, L_r,
                                     M_p, C_b))
            ELSE F2_2_result(return_string, "elastic",
                             eq_F2_3(eq_F2_4(shape, L_b, C_b), shape.S_x))))

\* sec_F2_2(shape, L_b, M_p, C_b, return_string): the plastic moment up to
\* and including L_p, the inelastic interpolation up to and including L_r,
\* the elastic buckling moment beyond.
sec_F2_2(shape, L_b, M_p, C_b, return_string) ==
    Let(eq_F2_5(shape), LAMBDA L_p :
        IF FLe(L_b, L_p)
        THEN F2_2_result(return_string, "plastic", M_p)
        ELSE Let(eq_F2_6(shape), LAMBDA L_r :
            IF FLe(L_b, L_r)
            THEN F2_2_result(return_string, "inelastic",
                             eq_F2_2(shape.F_y, shape.S_x, L_b, L_p, L_r,
                                     M_p, C_b))
            ELSE F2_2_result(return_string, "elastic",
                             eq_F2_3(eq_F2_4(shape, L_b, C_b), shape.S_x))))

\* The W12X22 of the tests and a W18X50, both of A992 steel.
F2Shapes ==
    {WideFlange(F(848, 1000), F(104, 100), F(293, 1000), F(254, 10),
                F(119, 10), F(293, 10), FI(50)),
     WideFlange(F(165, 100), F(198, 100), F(124, 100), F(889, 10),
                F(174, 10), FI(101), FI(50))}

\* The float next below and next above a positive float.
Below(a) == [m |-> a.m - 1, e |-> a.e]

Above(a) == [m |-> a.m + 1, e |-> a.e]

\* The unbraced lengths of the tests (2, 7 and 15 ft), the two limits of the
\* shape and the floats next to them.
F2Lengths(shape) ==
    {FI(24), FI(84), FI(120), FI(180), FI(300)}
        \cup {eq_F2_5(shape), Below(eq_F2_5(shape)), Above(eq_F2_5(shape))}
        \cup {eq_F2_6(shape), Below(eq_F2_6(shape)), Above(eq_F2_6(shape))}

F2Factors == {FI(1), F(114, 100), F(5, 3)}

CallSecF2_2 ==
    /\ Idle
    /\ \E shape \in F2Shapes, C_b \in F2Factors, return_string \in BOOLEAN :
        \E L_b \in F2Lengths(shape) :
            /\ call' = [op |-> "sec_F2_2", shape |-> shape, L_b |-> L_b,
                        M_p |-> sec_F2_1(shape), C_b |-> C_b,
                        return_string |-> return_string]
            /\ ret' = Ok(sec_F2_2(shape, L_b, sec_F2_1(shape), C_b,
                                  return_string))
            /\ UNCHANGED <<mws, ccs>>

NextF2 == CallSecF2_2

SpecF2 == InitIdle /\ [][NextF2]_vars

\* The regimes whose condition the unbraced length of the call meets.
RegimesMet ==
    {r \in {"plastic", "inelastic", "elastic"} :
        \/ r = "plastic" /\ FLe(call.L_b, eq_F2_5(call.shape))
        \/ /\ r = "inelastic"
           /\ FLt(eq_F2_5(call.shape), call.L_b)
           /\ FLe(call.L_b, eq_F2_6(call.shape))
        \/ r = "elastic" /\ FLt(eq_F2_6(call.shape), call.L_b)}

\* The moment the claim gives for a regime.
RegimeMoment(r) ==
    CASE r = "plastic" -> call.M_p
      [] r = "inelastic" ->
            FMul(call.C_b,
                 FSub(call.M_p,
                      FMul(FSub(call.M_p,
                                FMul(FMul(F(7, 10), call.shape.F_y),
                                     call.shape.S_x)),
                           FDiv(FSub(call.L_b, eq_F2_5(call.shape)),
                                FSub(eq_F2_6(call.shape),
                                     eq_F2_5(call.shape))))))
      [] r = "elastic" ->
            FMul(eq_F2_4(call.shape, call.L_b, call.C_b), call.shape.S_x)

\* C20: every unbraced length meets the condition of exactly one regime
\* (L_b <= L_p, L_p < L_b <= L_r, L_b > L_r), and sec_F2_2 returns the moment
\* of that regime (M_p, the interpolation of eq. F2-2, F_cr * S_x) and, when
\* the derivation is requested, the derivation of that regime.
C20_RegimeByUnbracedLength ==
    call.op = "sec_F2_2" =>
        /\ Cardinality(RegimesMet) = 1
        /\ \A r \in RegimesMet :
            /\ ret.val.val = RegimeMoment(r)
            /\ call.return_string => ret.val.latex = r

\* The unbraced length equals L_p, C_b is above 1, and the plastic moment
\* was returned with the plastic derivation.
C20_Witness ==
    /\ call.op = "sec_F2_2"
    /\ call.return_string
    /\ call.L_b = eq_F2_5(call.shape)
    /\ call.C_b = F(5, 3)
    /\ ret.val.latex = "plastic"
    /\ ret.val.val = call.M_p


\* A MainWindServer was constructed with the wind along y normal to the ridge
\* and the roof angle within the tabulated range.
NormalToRidge ==
    /\ call.op = "MainWindServer"
    /\ ret.err = "none"
    /\ call.kw.ridge_axis = "x"
    /\ FLe(FI(10), call.kw.roof_angle)
    /\ FLe(call.kw.roof_angle, FI(80))

\* The two tabulated angles of the construction, first record first.
Bracket ==
    <<roof_angles[angle_positions(call.kw.roof_angle)[1]],
      roof_angles[angle_positions(call.kw.roof_angle)[2]]>>

\* C21 as stated: for every roof angle in [10, 80] the two tabulated angles
\* interpolated between for wind normal to the ridge are adjacent members
\* lo < hi of the table with lo <= roof_angle <= hi, lo being the first
\* record.
C21_BracketIsAdjacentAndOrdered ==
    NormalToRidge =>
        /\ Bracket[1] < Bracket[2]
        /\ \E j \in 1..(Len(roof_angles) - 1) :
            Bracket = <<roof_angles[j], roof_angles[j + 1]>>
        /\ FLe(FI(Bracket[1]), call.kw.roof_angle)
        /\ FLe(call.kw.roof_angle, FI(Bracket[2]))


\* A roof or wall query, or a query by a string location.
LocatedQuery ==
    /\ call.op = "MainWindServer.get_load"
    /\ call.element \in {"roof", "wall"} \/ call.location.kind = "str"

\* The tag the claim gives the location of the query.
ClaimedTag ==
    IF call.location.kind = "str" THEN call.location.str
    ELSE IF call.element = "wall" THEN "windward"
    ELSE IF FLe(call.location.num, FDiv(mws.h, FI(2))) THEN "d<=h/2"
    ELSE IF FLe(call.location.num, mws.h) THEN "d<=h"
    ELSE IF FLe(call.location.num, FMul(FI(2), mws.h)) THEN "d<=2h"
    ELSE "d>2h"

\* The answer of the query computed from one entry of the element's table.
AnswerFrom(row) ==
    LET q_z == select_q_z(mws, row, call.location)
        p(C_p) == floor_pressure(unfloored_pressure(mws, call.axis, call.element,
                                                    q_z.val.v, C_p),
                                 unit(row.p_min.str))
    IN  IF q_z.err # "none" THEN Raise(q_z.err)
        ELSE IF ~q_z.val.some THEN Raise("TypeError")
        ELSE Ok(<<p(row.c1.num), p(row.c2.num)>>)

\* C22: get_load resolves the location to exactly one tag: a distance d on a
\* roof to "d<=h/2", "d<=h", "d<=2h" or "d>2h" by the first limit it does not
\* exceed, every numeric location on a wall to "windward", a string to
\* itself; the query is answered from the entry under that tag, and fails
\* with a KeyError when the element's table has no such entry.
C22_LocationTag ==
    LocatedQuery =>
        /\ resolve_location(mws, call.element, call.location) = Str(ClaimedTag)
        /\ ClaimedTag \in DOMAIN mws.coefs[call.axis][call.element] =>
            ret = AnswerFrom(mws.coefs[call.axis][call.element][ClaimedTag])
        /\ ClaimedTag \notin DOMAIN mws.coefs[call.axis][call.element] =>
            ret.err = "KeyError"

\* A roof query at a distance equal to the roof height was answered from the
\* "d<=h" entry, which differs from the entry of the next band.
C22_Witness ==
    /\ call.op = "MainWindServer.get_load"
    /\ call.element = "roof"
    /\ call.location = Num(mws.h)
    /\ "d<=h" \in DOMAIN mws.coefs[call.axis]["roof"]
    /\ ret.err = "none"
    /\ ret = AnswerFrom(mws.coefs[call.axis]["roof"]["d<=h"])
    /\ ret # AnswerFrom(mws.coefs[call.axis]["roof"]["d<=2h"])


\* The kind of a zone of the constructed CandCServer.
KindOf(zone) ==
    IF "kind" \in DOMAIN ccs.coefs[zone] THEN ccs.coefs[zone].kind.str ELSE "None"

\* Every composite zone of the server's table names two zones of the table
\* that are not composite.
NoNestedComposite ==
    \A zone \in DOMAIN ccs.coefs :
        KindOf(zone) = "composite" =>
            \A named \in {ccs.coefs[zone].positive_zone.str,
                          ccs.coefs[zone].negative_zone.str} :
                named \in DOMAIN ccs.coefs /\ KindOf(named) # "composite"

\* The get_load calls made within the query.
NestedCalls ==
    get_load_calls(ccs, call.zone, call.area, call.q_z, call.GC_pi, 0)

\* C23: on a server whose composite zones name only non-composite zones,
\* get_load returns for every zone and area without exhausting the call
\* stack, having made exactly two nested get_load calls for a composite zone
\* and none for a zone of any other kind.
C23_CompositeMakesTwoCalls ==
    (/\ call.op = "CandCServer.get_load"
     /\ call.zone \in DOMAIN ccs.coefs
     /\ NoNestedComposite) =>
        /\ ret.err # "RecursionError"
        /\ NestedCalls = IF KindOf(call.zone) = "composite" THEN 2 ELSE 0

\* A composite query answered after its two nested calls.
C23_Witness ==
    /\ call.op = "CandCServer.get_load"
    /\ call.zone = "parapet"
    /\ NoNestedComposite
    /\ KindOf("parapet") = "composite"
    /\ ret.err = "none"
    /\ NestedCalls = 2


\* A query of a zone of kind "constants" that was answered.
ConstantsQuery ==
    /\ call.op = "CandCServer.get_load"
    /\ call.zone \in DOMAIN ccs.coefs
    /\ KindOf(call.zone) = "constants"
    /\ ret.err = "none"

\* The coefficient and the gust factor the claim gives the query.
ClaimedC_n ==
    LET coefs == ccs.coefs[call.zone]
        a_2 == FMul(ccs.a, ccs.a)
    IN  IF FLe(call.area, a_2) THEN coefs.c1.num
        ELSE IF FLt(a_2, call.area) /\ FLe(call.area, FMul(FI(4), a_2))
        THEN coefs.c2.num
        ELSE coefs.c3.num

ClaimedG ==
    IF call.G_method = "x" THEN ccs.G.x
    ELSE IF call.G_method = "y" THEN ccs.G.y
    ELSE FMax(ccs.G.x, ccs.G.y)

\* C24: for a zone of kind "constants" the pressure returned is
\* q_z * K_d * G * C_n, floored and re-signed, with C_n = c1 when
\* area <= a^2, c2 when a^2 < area <= 4a^2 and c3 beyond, G = G_x for G_method
\* "x", G_y for "y" and max(G_x, G_y) for any other G_method, and with no term
\* in GC_pi.
C24_ConstantsByAreaBand ==
    ConstantsQuery =>
        ret.val =
            floor_and_sign(
                FMul(FMul(FMul(effective_q_z(ccs, ccs.coefs[call.zone], call.q_z).v,
                               ccs.K_d), ClaimedG), ClaimedC_n),
                effective_p_min(ccs.coefs[call.zone], call.p_min))

\* A constants zone was queried at area = a^2 for the x axis and answered
\* with c1, which differs from c2.
C24_Witness ==
    /\ ConstantsQuery
    /\ call.area = FMul(ccs.a, ccs.a)
    /\ call.G_method = "x"
    /\ ClaimedC_n = ccs.coefs[call.zone].c1.num
    /\ ccs.coefs[call.zone].c1.num # ccs.coefs[call.zone].c2.num
    /\ ccs.G.x # ccs.G.y
    /\ ret.val = FMul(FMul(FMul(ccs.q_h, ccs.K_d), ccs.G.x),
                      ccs.coefs[call.zone].c1.num)


\* A MainWindServer query of a wall or a roof answered with positive velocity
\* pressures, K_d and gust factor.
MainEnvelopeAnswer ==
    /\ MainAnswer
    /\ call.element # "parapet"
    /\ mws.q_h.m > 0 /\ mws.K_d.m > 0 /\ mws.G[call.axis].m > 0
    /\ select_q_z(mws, MainRow, call.location).val.v.m > 0

\* <<C_p, external term, internal term>> of each of the two coefficients of
\* the entry, the internal term taken at q_h.
MainTerms ==
    LET q_z == select_q_z(mws, MainRow, call.location).val.v
        terms(C_p) ==
            <<C_p,
              FMul(FMul(FMul(q_z, mws.K_d), mws.G[call.axis]), C_p),
              FMul(FMul(FMul(mws.q_h, mws.K_d), mws.GC_pi), FSign(C_p))>>
    IN  <<terms(MainRow.c1.num), terms(MainRow.c2.num)>>

\* A CandCServer query of a single_log or double_log zone answered with
\* positive velocity pressure and K_d.
CandCLogAnswer ==
    /\ CandCAnswer
    /\ KindOf(call.zone) \in {"single_log", "double_log"}
    /\ ccs.K_d.m > 0
    /\ effective_q_z(ccs, ccs.coefs[call.zone], call.q_z).v.m > 0

\* The external term of the query: q_z * K_d * GC_p.
CandCExternal ==
    zone_pressure(ccs, ccs.coefs[call.zone], call.area, call.G_method,
                  effective_q_z(ccs, ccs.coefs[call.zone], call.q_z), Zero, 0).val

\* C25: with positive velocity pressures, K_d and gust factor the internal
\* term never opposes the external one.  For a wall or roof of MainWindServer
\* the unfloored pressure is the external term plus q_h * K_d * GC_pi *
\* sign(C_p), the internal term being taken at q_h whatever pressure the
\* external term uses; it has the sign of C_p and at least the magnitude of
\* the external term, and the pressure returned is its floored value.  For a
\* single_log or double_log zone of CandCServer the unfloored pressure has
\* the sign of GC_p and at least the magnitude of the external term.
C25_InternalNeverOpposes ==
    /\ MainEnvelopeAnswer =>
        \A i \in {1, 2} :
            LET t == MainTerms[i]
                p == FAdd(t[2], t[3])
            IN  /\ MainUnfloored[i] = p
                /\ FSign(p) = FSign(t[1])
                /\ FLe(FAbs(t[2]), FAbs(p))
                /\ ret.val[i] = floor_pressure(p, unit(MainRow.p_min.str))
    /\ CandCLogAnswer =>
        /\ FSign(CandCUnfloored) = FSign(CandCExternal)
        /\ FLe(FAbs(CandCExternal), FAbs(CandCUnfloored))

\* A windward wall was queried at a height where the velocity pressure is not
\* q_h: the internal term at q_h has added to the external term at q_z.
C25_Witness ==
    /\ MainEnvelopeAnswer
    /\ call.element = "wall"
    /\ call.location.kind = "num"
    /\ select_q_z(mws, MainRow, call.location).val.v # mws.q_h
    /\ MainTerms[1][3].m > 0
    /\ FLt(FAbs(MainTerms[1][2]), FAbs(MainUnfloored[1]))

====
